---- MODULE Spec2Model ----
(***************************************************************************)
(* A model of the mpris package of rofi-media: the cached endpoint state   *)
(* (properties), UpdateProperties and decodeMetadata, the listener that    *)
(* Register starts, and the capability-gated control operations.           *)
(***************************************************************************)
EXTENDS Integers, Sequences, FiniteSets, TLC

VARIABLES
    player,       \* the Player NewPlayer returned, and its error
    properties,   \* *p.properties: the cached state, or NilProperties
    upd,          \* bookkeeping of the UpdateProperties calls made so far
    pc,           \* where the listener goroutine of Register stands
    bus,          \* what the connection did and holds for this player
    cb,           \* the callbacks invoked so far
    lastSig,      \* the last signal the listener took from its channel
    seen,         \* what was delivered: last valid scalars, signals in order
    remote,       \* the remote calls the last control operation made
    nsteps,       \* number of environment steps taken (bounded)
    thr,          \* the lock of properties and the goroutines using properties
    reg,          \* main's players slice and the goroutines using it
    fn            \* a call of a function of the package: input and results

vars == <<player, properties, upd, pc, bus, cb, lastSig, seen, remote, nsteps,
          thr, reg, fn>>

-----------------------------------------------------------------------------
(* dbus.Variant values, tagged by their dynamic Go type.                   *)

B(x)  == [t |-> "bool", b |-> x]
S(x)  == [t |-> "string", s |-> x]
X(x)  == [t |-> "int64", n |-> x]
AS(x) == [t |-> "[]string", l |-> x]
M(x)  == [t |-> "map[string]dbus.Variant", m |-> x]

IsBool(v)   == v.t = "bool"
IsString(v) == v.t = "string"
IsInt64(v)  == v.t = "int64"
IsStrings(v) == v.t = "[]string"
IsBag(v)    == v.t = "map[string]dbus.Variant"

-----------------------------------------------------------------------------
(* Status enumerations.                                                    *)

PlaybackStatusPaused  == "Paused"
PlaybackStatusPlaying == "Playing"
PlaybackStatusStopped == "Stopped"

PlaybackStatusIsValid(e) ==
    e \in {PlaybackStatusPaused, PlaybackStatusPlaying, PlaybackStatusStopped}

LoopStatusNone     == "None"
LoopStatusTrack    == "Track"
LoopStatusPlaylist == "Playlist"

LoopStatusIsValid(e) ==
    e \in {LoopStatusNone, LoopStatusTrack, LoopStatusPlaylist}

-----------------------------------------------------------------------------
(* Bus names and the destination regexp.                                   *)

interfacePathMprisMediaPlayer2       == "org.mpris.MediaPlayer2"
interfacePathMprisMediaPlayer2Player == "org.mpris.MediaPlayer2.Player"
signalNamePropertiesChanged == "org.freedesktop.DBus.Properties.PropertiesChanged"
signalNameOwnerChanged      == "org.freedesktop.DBus.NameOwnerChanged"

\* The characters of the bus names the model uses.
Chars(name) ==
    CASE name = "org.mpris.MediaPlayer2.vlc" ->
            <<"o", "r", "g", ".", "m", "p", "r", "i", "s", ".", "M", "e", "d", "i", "a", "P", "l", "a", "y", "e", "r", "2", ".", "v", "l", "c">>
      [] name = "org.mpris.MediaPlayer2.mpv" ->
            <<"o", "r", "g", ".", "m", "p", "r", "i", "s", ".", "M", "e", "d", "i", "a", "P", "l", "a", "y", "e", "r", "2", ".", "m", "p", "v">>
      [] name = "com.example.spotify" ->
            <<"c", "o", "m", ".", "e", "x", "a", "m", "p", "l", "e", ".", "s", "p", "o", "t", "i", "f", "y">>
      [] name = "org.mpris.MediaPlayer2.spotify" ->
            <<"o", "r", "g", ".", "m", "p", "r", "i", "s", ".", "M", "e", "d", "i", "a", "P", "l", "a", "y", "e", "r", "2", ".", "s", "p", "o", "t", "i", "f", "y">>
      [] name = "org.mpris.MediaPlayer2.vlc.instance1234" ->
            <<"o", "r", "g", ".", "m", "p", "r", "i", "s", ".", "M", "e", "d", "i", "a", "P", "l", "a", "y", "e", "r", "2", ".", "v", "l", "c", ".", "i", "n", "s", "t", "a", "n", "c", "e", "1", "2", "3", "4">>
      [] name = "org.mpris.MediaPlayer2." ->
            <<"o", "r", "g", ".", "m", "p", "r", "i", "s", ".", "M", "e", "d", "i", "a", "P", "l", "a", "y", "e", "r", "2", ".">>
      [] name = "org.mpris.MediaPlayer2.1vlc" ->
            <<"o", "r", "g", ".", "m", "p", "r", "i", "s", ".", "M", "e", "d", "i", "a", "P", "l", "a", "y", "e", "r", "2", ".", "1", "v", "l", "c">>
      [] name = "org.mpris.MediaPlayer2.vlc player" ->
            <<"o", "r", "g", ".", "m", "p", "r", "i", "s", ".", "M", "e", "d", "i", "a", "P", "l", "a", "y", "e", "r", "2", ".", "v", "l", "c", " ", "p", "l", "a", "y", "e", "r">>
      [] name = "xorg.mpris.MediaPlayer2.vlc" ->
            <<"x", "o", "r", "g", ".", "m", "p", "r", "i", "s", ".", "M", "e", "d", "i", "a", "P", "l", "a", "y", "e", "r", "2", ".", "v", "l", "c">>
      [] name = "orgXmpris.MediaPlayer2.vlc" ->
            <<"o", "r", "g", "X", "m", "p", "r", "i", "s", ".", "M", "e", "d", "i", "a", "P", "l", "a", "y", "e", "r", "2", ".", "v", "l", "c">>
      [] name = "org.mpris/MediaPlayer2.vlc" ->
            <<"o", "r", "g", ".", "m", "p", "r", "i", "s", "/", "M", "e", "d", "i", "a", "P", "l", "a", "y", "e", "r", "2", ".", "v", "l", "c">>
      [] OTHER -> <<>>

Letters ==
    {"a", "b", "c", "d", "e", "f", "g", "h", "i", "j", "k", "l", "m", "n", "o",
     "p", "q", "r", "s", "t", "u", "v", "w", "x", "y", "z",
     "A", "B", "C", "D", "E", "F", "G", "H", "I", "J", "K", "L", "M", "N", "O",
     "P", "Q", "R", "S", "T", "U", "V", "W", "X", "Y", "Z"}
Digits == {"0", "1", "2", "3", "4", "5", "6", "7", "8", "9"}

\* The literal part of the pattern, "org.mpris.MediaPlayer2.": in a regexp an
\* unescaped "." stands for any character but a newline.
PatternHead ==
    <<"o", "r", "g", ".", "m", "p", "r", "i", "s", ".", "M", "e", "d", "i", "a", "P", "l", "a", "y", "e", "r", "2", ".">>

MatchesPatternChar(pc0, c) == IF pc0 = "." THEN c # "\n" ELSE c = pc0

\* [a-zA-Z-_]{1} and [a-zA-Z-_0-9.]
FirstClass == Letters \cup {"-", "_"}
RestClass  == Letters \cup {"-", "_", "."} \cup Digits

\* destinationRegexp.MatchString(s), s given by its characters.
DestinationMatch(cs) ==
    LET n == Len(PatternHead) IN
    /\ Len(cs) >= n + 1
    /\ \A i \in 1..n : MatchesPatternChar(PatternHead[i], cs[i])
    /\ cs[n + 1] \in FirstClass
    /\ \A i \in (n + 2)..Len(cs) : cs[i] \in RestClass

HasValidDestinationNameAny(destination) == TRUE

HasValidDestinationName(destination) == DestinationMatch(Chars(destination))

\* destinationRegexp.FindStringSubmatch(dest)[1], by its characters.
ShortOf(dest) == SubSeq(Chars(dest), Len(PatternHead) + 1, Len(Chars(dest)))

-----------------------------------------------------------------------------
(* decodeMetadata: the attribute decoder writing into an existing Media.   *)

MediaZero ==
    [ID |-> "", Length |-> 0, ArtURL |-> "", Artist |-> "", Album |-> "",
     AlbumArtist |-> "", Title |-> "", Genre |-> "", Year |-> 0, URL |-> ""]

Int8Wide(x) == x

\* int8(x): Go's conversion to a signed 8-bit integer (two's complement).
Int8(x) == ((x + 128) % 256) - 128

\* time.Microsecond, in nanoseconds (the unit of time.Duration). The lengths
\* of the model's bags stay far below the int64 range, where v * 1000 is exact.
Microsecond == 1000

\* strings.Join(v, sep)
RECURSIVE Join(_, _)
Join(v, sep) ==
    IF Len(v) = 0 THEN ""
    ELSE IF Len(v) = 1 THEN v[1]
    ELSE v[1] \o sep \o Join(Tail(v), sep)

\* time.Parse(time.RFC3339, v) on the timestamps that occur in the model's
\* bags: the calendar year of a well-formed timestamp, or an error.
ParseRFC3339(v) ==
    CASE v = "2024-05-01T10:00:00Z"      -> [err |-> FALSE, year |-> 2024]
      [] v = "1999-12-31T23:59:59+01:00" -> [err |-> FALSE, year |-> 1999]
      [] v = "0100-01-01T00:00:00Z"      -> [err |-> FALSE, year |-> 100]
      [] OTHER                           -> [err |-> TRUE, year |-> 0]

\* One iteration of the loop over the bag: the switch on key.
DecodeKey(m, key, val) ==
    CASE key = "mpris:trackid" ->
            IF IsString(val) THEN [m EXCEPT !.ID = val.s] ELSE m
      [] key = "mpris:length" ->
            IF IsInt64(val)
            THEN [m EXCEPT !.Length = val.n * Microsecond] ELSE m
      [] key = "mpris:artUrl" ->
            IF IsString(val) THEN [m EXCEPT !.ArtURL = val.s] ELSE m
      [] key = "xesam:album" ->
            IF IsString(val) THEN [m EXCEPT !.Album = val.s] ELSE m
      [] key = "xesam:albumArtist" ->
            IF IsString(val) THEN [m EXCEPT !.AlbumArtist = val.s] ELSE m
      [] key = "xesam:artist" ->
            IF IsString(val) THEN [m EXCEPT !.Artist = val.s]
            ELSE IF IsStrings(val) THEN [m EXCEPT !.Artist = Join(val.l, ", ")]
            ELSE m
      [] key = "xesam:contentCreated" ->
            IF IsString(val) /\ ~ParseRFC3339(val.s).err
            THEN [m EXCEPT !.Year = Int8(ParseRFC3339(val.s).year)] ELSE m
      [] key = "xesam:genre" ->
            IF IsStrings(val) THEN [m EXCEPT !.Genre = Join(val.l, ", ")] ELSE m
      [] key = "xesam:title" ->
            IF IsString(val) THEN [m EXCEPT !.Title = val.s] ELSE m
      [] key = "xesam:url" ->
            IF IsString(val) THEN [m EXCEPT !.URL = val.s] ELSE m
      [] OTHER -> m

\* The range loop, in the iteration order ord of the bag's keys.
RECURSIVE DecodeLoop(_, _, _)
DecodeLoop(m, bag, ord) ==
    IF ord = <<>> THEN m
    ELSE DecodeLoop(DecodeKey(m, Head(ord), bag[Head(ord)]), bag, Tail(ord))

\* Some iteration order of a finite set of keys.
RECURSIVE SomeOrder(_)
SomeOrder(keys) ==
    IF keys = {} THEN <<>>
    ELSE LET k == CHOOSE x \in keys : TRUE IN <<k>> \o SomeOrder(keys \ {k})

\* decodeMetadata(metadata, m): err, and *m after the call.
decodeMetadataResets(metadata, m) ==
    IF ~IsBag(metadata) THEN [err |-> TRUE, m |-> MediaZero]
    ELSE [err |-> FALSE,
          m |-> DecodeLoop(m, metadata.m, SomeOrder(DOMAIN metadata.m))]

decodeMetadata(metadata, m) ==
    IF ~IsBag(metadata) THEN [err |-> TRUE, m |-> m]
    ELSE [err |-> FALSE,
          m |-> DecodeLoop(m, metadata.m, SomeOrder(DOMAIN metadata.m))]

decodeMetadataAborts(metadata, m, ord) ==
    IF ~IsBag(metadata) THEN [err |-> TRUE, m |-> m]
    ELSE IF \E k \in DOMAIN metadata.m :
               DecodeKey(m, k, metadata.m[k]) = m
         THEN [err |-> TRUE, m |-> m]
         ELSE [err |-> FALSE, m |-> DecodeLoop(m, metadata.m, ord)]

\* decodeMetadata(metadata, m), the range loop taking the keys in the order
\* ord.
decodeMetadataOrd(metadata, m, ord) ==
    IF ~IsBag(metadata) THEN [err |-> TRUE, m |-> m]
    ELSE [err |-> FALSE, m |-> DecodeLoop(m, metadata.m, ord)]

-----------------------------------------------------------------------------
(* The cached endpoint state and UpdateProperties.                         *)

\* p.properties before the first UpdateProperties: a nil pointer.
NilProperties == [nil |-> TRUE]

\* &properties{}: the zero value of the struct.
propertiesZero ==
    [PlaybackStatus |-> "", LoopStatus |-> "", Shuffle |-> FALSE,
     Media |-> MediaZero]

\* case "Shuffle": of the switch in UpdateProperties. Each case gives the
\* state after it and whether the key was appended to changeList.
UpdateShuffleAlways(p, val) ==
    IF IsBool(val)
    THEN [p |-> [p EXCEPT !.Shuffle = val.b], changed |-> TRUE]
    ELSE [p |-> p, changed |-> FALSE]

UpdateShuffle(p, val) ==
    IF IsBool(val) /\ p.Shuffle # val.b
    THEN [p |-> [p EXCEPT !.Shuffle = val.b], changed |-> TRUE]
    ELSE [p |-> p, changed |-> FALSE]

\* case "PlaybackStatus":
UpdatePlaybackStatusNoCheck(p, val) ==
    IF IsString(val) /\ p.PlaybackStatus # val.s
    THEN [p |-> [p EXCEPT !.PlaybackStatus = val.s], changed |-> TRUE]
    ELSE [p |-> p, changed |-> FALSE]

UpdatePlaybackStatus(p, val) ==
    IF IsString(val) /\ PlaybackStatusIsValid(val.s)
                     /\ p.PlaybackStatus # val.s
    THEN [p |-> [p EXCEPT !.PlaybackStatus = val.s], changed |-> TRUE]
    ELSE [p |-> p, changed |-> FALSE]

\* case "LoopStatus":
UpdateLoopStatusReject(p, val) ==
    IF IsString(val) /\ LoopStatusIsValid(val.s) /\ p.LoopStatus # val.s
    THEN [p |-> [p EXCEPT !.LoopStatus = val.s], changed |-> TRUE]
    ELSE [p |-> p, changed |-> FALSE]

UpdateLoopStatus(p, val) ==
    IF IsString(val)
    THEN LET s == IF LoopStatusIsValid(val.s) THEN val.s ELSE LoopStatusNone
         IN  IF p.LoopStatus # s
             THEN [p |-> [p EXCEPT !.LoopStatus = s], changed |-> TRUE]
             ELSE [p |-> p, changed |-> FALSE]
    ELSE [p |-> p, changed |-> FALSE]

\* case "Metadata":
UpdateMetadataIfDiffers(p, val) ==
    LET d == decodeMetadata(val, p.Media)
    IN  [p |-> [p EXCEPT !.Media = d.m],
         changed |-> ~d.err /\ d.m # p.Media]

UpdateMetadata(p, val) ==
    LET d == decodeMetadata(val, p.Media)
    IN  [p |-> [p EXCEPT !.Media = d.m], changed |-> ~d.err]

\* One iteration of the range loop of UpdateProperties: the switch on key.
UpdateKey(p, key, val) ==
    CASE key = "Shuffle"        -> UpdateShuffle(p, val)
      [] key = "PlaybackStatus" -> UpdatePlaybackStatus(p, val)
      [] key = "LoopStatus"     -> UpdateLoopStatus(p, val)
      [] key = "Metadata"       -> UpdateMetadata(p, val)
      [] OTHER                  -> [p |-> p, changed |-> FALSE]

RECURSIVE UpdateLoop(_, _, _, _)
UpdateLoop(p, props, ord, changeList) ==
    IF ord = <<>> THEN [properties |-> p, changeList |-> changeList]
    ELSE LET key == Head(ord)
             r   == UpdateKey(p, key, props[key])
         IN  UpdateLoop(r.p, props, Tail(ord),
                        IF r.changed THEN Append(changeList, key)
                        ELSE changeList)

\* p.UpdateProperties(props), the map being ranged over in the order ord:
\* the properties after the call and the changeList returned.
UpdateProperties(p, props, ord) ==
    UpdateLoop(IF p = NilProperties THEN propertiesZero ELSE p,
               props, ord, <<>>)

\* The iteration orders a Go map range may take: every order of its keys.
RECURSIVE Orders(_)
Orders(keys) ==
    IF keys = {} THEN {<<>>}
    ELSE UNION {{<<k>> \o o : o \in Orders(keys \ {k})} : k \in keys}

-----------------------------------------------------------------------------
(* The inputs of the model.                                                *)

\* Largest number of entries of a change batch.
MaxBatchKeys == 2

BagA ==
    ("xesam:title" :> S("Song A")) @@ ("xesam:artist" :> AS(<<"A", "B">>))
    @@ ("mpris:length" :> X(5000))
    @@ ("xesam:contentCreated" :> S("2024-05-01T10:00:00Z"))

BagB ==
    ("xesam:title" :> S("Song B")) @@ ("xesam:artist" :> X(7))
    @@ ("xesam:useCount" :> X(3)) @@ ("custom:key" :> S("x"))

MetaBags == {BagA, BagB}

BatchKeys == {"Shuffle", "PlaybackStatus", "LoopStatus", "Metadata", "Volume"}

\* The values a remote player may send under each key: well-typed valid ones,
\* an unrecognized string, and a value of the wrong type.
BatchValues(k) ==
    CASE k = "Shuffle" -> {B(TRUE), B(FALSE), S("yes")}
      [] k = "PlaybackStatus" ->
            {S("Playing"), S("Paused"), S("Stopped"), S("Bogus"), B(TRUE)}
      [] k = "LoopStatus" ->
            {S("None"), S("Track"), S("Playlist"), S("Bogus"), B(FALSE)}
      [] k = "Metadata" -> {M(b) : b \in MetaBags} \cup {S("not a bag")}
      [] OTHER -> {X(50)}

RECURSIVE BagsOver(_)
BagsOver(ks) ==
    IF ks = {} THEN {<<>>}
    ELSE LET k == CHOOSE x \in ks : TRUE
         IN  {(k :> v) @@ b : v \in BatchValues(k), b \in BagsOver(ks \ {k})}

Batches ==
    UNION {BagsOver(ks) :
             ks \in {x \in SUBSET BatchKeys : Cardinality(x) <= MaxBatchKeys}}

\* The Media values a sequence of Metadata batches can leave in the cache.
Medias ==
    LET one == {MediaZero} \cup {decodeMetadata(M(b), MediaZero).m : b \in MetaBags}
    IN  one \cup {decodeMetadata(M(b), m).m : b \in MetaBags, m \in one}

\* The cached states a player can be in after construction and updates.
PropertiesStates ==
    [PlaybackStatus : {"", "Playing", "Paused", "Stopped"},
     LoopStatus : {"", "None", "Track", "Playlist"},
     Shuffle : BOOLEAN, Media : Medias]

-----------------------------------------------------------------------------
(* Variables a specification does not use stay at these values.            *)

updIdle == [n |-> 0, batch |-> <<>>, pre |-> NilProperties,
            changeList |-> <<>>, first |-> NilProperties]
\* var player Player: the zero value, with the error NewPlayer returns.
playerZero == [Name |-> "", Short |-> <<>>, ownerID |-> "",
               isConnected |-> FALSE, err |-> "none"]
pcIdle == [at |-> "Unregistered", why |-> ""]
\* fetched: Properties.GetAll was called; subscribes: the AddMatchSignal calls
\* made, failed: those of them that returned an error; matchProps, matchOwner:
\* the match rules in place; registered: the channel is registered with
\* Signal; closed: the channel is closed.
busIdle == [fetched |-> FALSE, subscribes |-> 0, failed |-> 0,
            matchProps |-> FALSE, matchOwner |-> FALSE,
            registered |-> FALSE, closed |-> FALSE]
cbIdle == [disconnects |-> <<>>, changes |-> <<>>]
sigIdle == [Name |-> "", Sender |-> "", Body |-> <<>>]
\* base: the properties NewPlayer left; sigs: the signals the listener took
\* from its channel, in order.
seenIdle == [PlaybackStatus |-> "", LoopStatus |-> "", Shuffle |-> FALSE,
             base |-> NilProperties, sigs |-> <<>>]
remoteIdle == [op |-> "", args |-> <<>>, cached |-> "", caps |-> <<>>,
               callErr |-> FALSE, queries |-> <<>>, calls |-> <<>>,
               ret |-> [err |-> "nil"], total |-> 0]

thrIdle == [lock |-> ""]
regIdle == [players |-> <<>>]
fnIdle == [op |-> ""]

-----------------------------------------------------------------------------
(* SpecUpd: UpdateProperties as a function of the cached state and batch.  *)
(* A batch is applied to a cached state, and then applied once more. The   *)
(* call on a player without properties starts from the zero value, which   *)
(* upd.pre then holds.                                                     *)

InitUpd ==
    /\ properties \in PropertiesStates \cup {NilProperties}
    /\ \E b \in Batches : upd = [updIdle EXCEPT !.batch = b]
    /\ player = playerZero /\ pc = pcIdle /\ bus = busIdle /\ cb = cbIdle
    /\ lastSig = sigIdle /\ seen = seenIdle /\ remote = remoteIdle
    /\ nsteps = 0 /\ thr = thrIdle /\ reg = regIdle /\ fn = fnIdle

\* The call p.UpdateProperties(batch), for some iteration order of the map.
ApplyBatch ==
    /\ upd.n < 2
    /\ \E ord \in Orders(DOMAIN upd.batch) :
         LET r == UpdateProperties(properties, upd.batch, ord)
         IN  /\ properties' = r.properties
             /\ upd' = [upd EXCEPT !.n = @ + 1,
                                   !.pre = IF properties = NilProperties
                                           THEN propertiesZero
                                           ELSE properties,
                                   !.changeList = r.changeList,
                                   !.first = IF upd.n = 0 THEN r.properties
                                             ELSE @]
    /\ UNCHANGED <<player, pc, bus, cb, lastSig, seen, remote, nsteps,
                   thr, reg, fn>>

NextUpd == ApplyBatch

SpecUpd == InitUpd /\ [][NextUpd]_vars

-----------------------------------------------------------------------------
(* Spec: one player from NewPlayer to the end of its listener.             *)

\* Largest number of signals the listener takes from its channel.
MaxSignals == 2

PlayerName == "org.mpris.MediaPlayer2.vlc"
OtherName  == "org.mpris.MediaPlayer2.mpv"
DestNames  == {PlayerName, "com.example.spotify"}

\* Unique connection names: the player's owner, and another client.
OwnerE     == ":1.5"
OtherOwner == ":1.9"
BusDaemon  == "org.freedesktop.DBus"

\* What Properties.GetAll may answer in NewPlayer: a failed call, a reply that
\* does not decode, or the player's properties.
GetAllReplies ==
    {[err |-> "call"], [err |-> "store"],
     [err |-> "none", props |-> <<>>],
     [err |-> "none", props |-> ("PlaybackStatus" :> S("Paused"))],
     [err |-> "none",
      props |-> ("PlaybackStatus" :> S("Playing")) @@ ("LoopStatus" :> S("None"))
                @@ ("Shuffle" :> B(FALSE)) @@ ("Metadata" :> M(BagA))]}

\* The changed-properties bags of the PropertiesChanged signals.
SigBatches ==
    {<<>>,
     "PlaybackStatus" :> S("Playing"),
     "PlaybackStatus" :> S("Paused"),
     "PlaybackStatus" :> S("Bogus"),
     "LoopStatus" :> S("Track"),
     "LoopStatus" :> S("Bogus"),
     "Shuffle" :> B(TRUE),
     "Metadata" :> M(BagB),
     ("Metadata" :> S("not a bag")) @@ ("PlaybackStatus" :> S("Stopped")),
     ("Shuffle" :> S("yes")) @@ ("LoopStatus" :> S("Playlist"))}

Sig(name, sender, body) == [Name |-> name, Sender |-> sender, Body |-> body]

PropertiesChangedSignals ==
    {Sig(signalNamePropertiesChanged, OwnerE,
         <<S(interfacePathMprisMediaPlayer2Player), M(b), AS(<<>>)>>) :
       b \in SigBatches}
    \cup
    {\* from another connection
     Sig(signalNamePropertiesChanged, OtherOwner,
         <<S(interfacePathMprisMediaPlayer2Player),
           M("PlaybackStatus" :> S("Stopped")), AS(<<>>)>>),
     Sig(signalNamePropertiesChanged, OtherOwner, <<>>),
     \* of the root interface
     Sig(signalNamePropertiesChanged, OwnerE,
         <<S(interfacePathMprisMediaPlayer2),
           M("PlaybackStatus" :> S("Stopped")), AS(<<>>)>>),
     \* malformed bodies
     Sig(signalNamePropertiesChanged, OwnerE, <<>>),
     Sig(signalNamePropertiesChanged, OwnerE,
         <<S(interfacePathMprisMediaPlayer2Player)>>),
     Sig(signalNamePropertiesChanged, OwnerE,
         <<S(interfacePathMprisMediaPlayer2Player),
           M("PlaybackStatus" :> S("Stopped"))>>),
     Sig(signalNamePropertiesChanged, OwnerE,
         <<S(interfacePathMprisMediaPlayer2Player), S("not a bag"), AS(<<>>)>>)}

OwnerChangedSignals ==
    {Sig(signalNameOwnerChanged, BusDaemon, <<S(n), S(o), S(w)>>) :
       n \in {PlayerName, OtherName},
       o \in {"", OwnerE}, w \in {"", OtherOwner}}
    \cup
    {Sig(signalNameOwnerChanged, BusDaemon, <<>>),
     Sig(signalNameOwnerChanged, BusDaemon, <<S(PlayerName)>>),
     Sig(signalNameOwnerChanged, BusDaemon, <<S(OtherName)>>),
     Sig(signalNameOwnerChanged, BusDaemon, <<S(PlayerName), S(OwnerE)>>),
     Sig(signalNameOwnerChanged, BusDaemon, <<S(PlayerName), X(1), S("")>>),
     Sig(signalNameOwnerChanged, BusDaemon, <<X(1), S(OwnerE), S("")>>)}

OtherSignals ==
    {Sig("org.freedesktop.DBus.NameAcquired", BusDaemon, <<S(OwnerE)>>)}

\* Every signal the connection may hand to a channel registered with Signal.
Signals == PropertiesChangedSignals \cup OwnerChangedSignals \cup OtherSignals

\* varMap, ok := msg.Body[1].(map[string]dbus.Variant): nil when !ok.
VarMapOf(msg) ==
    IF Len(msg.Body) >= 2 /\ IsBag(msg.Body[2]) THEN msg.Body[2].m ELSE <<>>

\* case signalNamePropertiesChanged: of the listener's switch. The outcome is
\* "continue" (next iteration), "break" (break Loop) or "panic" (an index out
\* of range); applied tells whether UpdateProperties was called.
HandlePropertiesChangedAnySender(pl, props, msg, ord) ==
    LET skip == [outcome |-> "continue", properties |-> props,
                 changeList |-> <<>>, applied |-> FALSE]
        panic == [skip EXCEPT !.outcome = "panic"]
    IN
    IF Len(msg.Body) < 1 THEN panic
    ELSE IF msg.Body[1] # S(interfacePathMprisMediaPlayer2Player) THEN skip
    ELSE IF Len(msg.Body) < 2 THEN panic
    ELSE LET r == UpdateProperties(props, VarMapOf(msg), ord)
         IN  [outcome |-> "continue", properties |-> r.properties,
              changeList |-> r.changeList, applied |-> TRUE]

HandlePropertiesChangedAnyInterface(pl, props, msg, ord) ==
    LET skip == [outcome |-> "continue", properties |-> props,
                 changeList |-> <<>>, applied |-> FALSE]
        panic == [skip EXCEPT !.outcome = "panic"]
    IN
    IF msg.Sender # pl.ownerID THEN skip
    ELSE IF Len(msg.Body) < 2 THEN panic
    ELSE LET r == UpdateProperties(props, VarMapOf(msg), ord)
         IN  [outcome |-> "continue", properties |-> r.properties,
              changeList |-> r.changeList, applied |-> TRUE]

HandlePropertiesChanged(pl, props, msg, ord) ==
    LET skip == [outcome |-> "continue", properties |-> props,
                 changeList |-> <<>>, applied |-> FALSE]
        panic == [skip EXCEPT !.outcome = "panic"]
    IN
    IF msg.Sender # pl.ownerID THEN skip
    ELSE IF Len(msg.Body) < 1 THEN panic
    ELSE IF msg.Body[1] # S(interfacePathMprisMediaPlayer2Player) THEN skip
    ELSE IF Len(msg.Body) < 2 THEN panic
    ELSE LET r == UpdateProperties(props, VarMapOf(msg), ord)
         IN  [outcome |-> "continue", properties |-> r.properties,
              changeList |-> r.changeList, applied |-> TRUE]

\* case signalNameOwnerChanged:
HandleOwnerChangedNewOwner(pl, props, msg) ==
    LET skip == [outcome |-> "continue", properties |-> props,
                 changeList |-> <<>>, applied |-> FALSE]
    IN
    IF Len(msg.Body) < 1 THEN [skip EXCEPT !.outcome = "panic"]
    ELSE IF ~(IsString(msg.Body[1]) /\ msg.Body[1].s = pl.Name) THEN skip
    ELSE IF Len(msg.Body) < 3 THEN [skip EXCEPT !.outcome = "panic"]
    ELSE IF IsString(msg.Body[3]) /\ msg.Body[3].s # ""
         THEN [skip EXCEPT !.outcome = "break"]
         ELSE skip

HandleOwnerChangedAnyName(pl, props, msg) ==
    LET skip == [outcome |-> "continue", properties |-> props,
                 changeList |-> <<>>, applied |-> FALSE]
    IN
    IF Len(msg.Body) < 2 THEN [skip EXCEPT !.outcome = "panic"]
    ELSE IF IsString(msg.Body[2]) /\ msg.Body[2].s # ""
         THEN [skip EXCEPT !.outcome = "break"]
         ELSE skip

HandleOwnerChanged(pl, props, msg) ==
    LET skip == [outcome |-> "continue", properties |-> props,
                 changeList |-> <<>>, applied |-> FALSE]
    IN
    IF Len(msg.Body) < 1 THEN [skip EXCEPT !.outcome = "panic"]
    ELSE IF ~(IsString(msg.Body[1]) /\ msg.Body[1].s = pl.Name) THEN skip
    ELSE IF Len(msg.Body) < 2 THEN [skip EXCEPT !.outcome = "panic"]
    ELSE IF IsString(msg.Body[2]) /\ msg.Body[2].s # ""
         THEN [skip EXCEPT !.outcome = "break"]
         ELSE skip

\* The body of the listener's loop for one received signal.
HandleSignal(pl, props, msg, ord) ==
    CASE msg.Name = signalNamePropertiesChanged ->
            HandlePropertiesChanged(pl, props, msg, ord)
      [] msg.Name = signalNameOwnerChanged ->
            HandleOwnerChanged(pl, props, msg)
      [] OTHER -> [outcome |-> "continue", properties |-> props,
                   changeList |-> <<>>, applied |-> FALSE]

\* The last valid value delivered for each scalar field, after batch.
LastValid(sn, batch) ==
    [sn EXCEPT
       !.PlaybackStatus =
          IF /\ "PlaybackStatus" \in DOMAIN batch
             /\ batch["PlaybackStatus"].t = "string"
             /\ batch["PlaybackStatus"].s \in {"Playing", "Paused", "Stopped"}
          THEN batch["PlaybackStatus"].s ELSE @,
       !.LoopStatus =
          IF "LoopStatus" \in DOMAIN batch /\ batch["LoopStatus"].t = "string"
          THEN IF batch["LoopStatus"].s \in {"None", "Track", "Playlist"}
               THEN batch["LoopStatus"].s ELSE "None"
          ELSE @,
       !.Shuffle =
          IF "Shuffle" \in DOMAIN batch /\ batch["Shuffle"].t = "bool"
          THEN batch["Shuffle"].b ELSE @]

Init ==
    /\ player = playerZero /\ properties = NilProperties
    /\ upd = updIdle /\ pc = pcIdle /\ bus = busIdle /\ cb = cbIdle
    /\ lastSig = sigIdle /\ seen = seenIdle /\ remote = remoteIdle
    /\ nsteps = 0 /\ thr = thrIdle /\ reg = regIdle /\ fn = fnIdle

NewPlayerStrict ==
    /\ pc.at = "Unregistered" /\ player = playerZero
    /\ \E dest \in DestNames, reply \in GetAllReplies,
          failProps \in BOOLEAN, failOwner \in BOOLEAN :
         IF ~HasValidDestinationName(dest)
         THEN /\ player' = [playerZero EXCEPT !.err = "ErrInvalidDestination"]
              /\ UNCHANGED <<properties, pc, bus, seen>>
         ELSE LET made == [Name |-> dest, Short |-> ShortOf(dest),
                           ownerID |-> OwnerE, isConnected |-> FALSE,
                           err |-> "none"]
              IN
              IF reply.err # "none"
              THEN /\ player' = [made EXCEPT !.err = reply.err]
                   /\ bus' = [bus EXCEPT !.fetched = TRUE]
                   /\ UNCHANGED <<properties, pc, seen>>
              ELSE IF failProps \/ failOwner
              THEN /\ player' = [made EXCEPT !.err = "subscribe"]
                   /\ bus' = [bus EXCEPT !.fetched = TRUE, !.subscribes = 2,
                                         !.failed = 1]
                   /\ UNCHANGED <<properties, pc, seen>>
              ELSE \E ord \in Orders(DOMAIN reply.props) :
                     /\ properties' =
                          UpdateProperties(properties, reply.props, ord).properties
                     /\ seen' = [LastValid(seen, reply.props) EXCEPT
                                   !.base = properties']
                     /\ bus' = [fetched |-> TRUE, subscribes |-> 2,
                                failed |-> (IF failProps THEN 1 ELSE 0)
                                           + (IF failOwner THEN 1 ELSE 0),
                                matchProps |-> ~failProps,
                                matchOwner |-> ~failOwner,
                                registered |-> TRUE, closed |-> FALSE]
                     /\ pc' = [at |-> "Active", why |-> ""]
                     /\ player' = [made EXCEPT !.isConnected = TRUE]
    /\ UNCHANGED <<upd, cb, lastSig, remote, nsteps, thr, reg, fn>>

\* NewPlayer(conn, dest, ownerID, onDisconnect, onPropertyChange), with
\* Register: the two AddMatchSignal calls may fail, the channel is registered
\* and the listener goroutine started.
NewPlayer ==
    /\ pc.at = "Unregistered" /\ player = playerZero
    /\ \E dest \in DestNames, reply \in GetAllReplies,
          failProps \in BOOLEAN, failOwner \in BOOLEAN :
         IF ~HasValidDestinationName(dest)
         THEN /\ player' = [playerZero EXCEPT !.err = "ErrInvalidDestination"]
              /\ UNCHANGED <<properties, pc, bus, seen>>
         ELSE LET made == [Name |-> dest, Short |-> ShortOf(dest),
                           ownerID |-> OwnerE, isConnected |-> FALSE,
                           err |-> "none"]
              IN
              IF reply.err # "none"
              THEN /\ player' = [made EXCEPT !.err = reply.err]
                   /\ bus' = [bus EXCEPT !.fetched = TRUE]
                   /\ UNCHANGED <<properties, pc, seen>>
              ELSE \E ord \in Orders(DOMAIN reply.props) :
                     /\ properties' =
                          UpdateProperties(properties, reply.props, ord).properties
                     /\ seen' = [LastValid(seen, reply.props) EXCEPT
                                   !.base = properties']
                     /\ bus' = [fetched |-> TRUE, subscribes |-> 2,
                                failed |-> (IF failProps THEN 1 ELSE 0)
                                           + (IF failOwner THEN 1 ELSE 0),
                                matchProps |-> ~failProps,
                                matchOwner |-> ~failOwner,
                                registered |-> TRUE, closed |-> FALSE]
                     /\ pc' = [at |-> "Active", why |-> ""]
                     /\ player' = [made EXCEPT !.isConnected = TRUE]
    /\ UNCHANGED <<upd, cb, lastSig, remote, nsteps, thr, reg, fn>>

\* msg, ok := <-signalCh with ok, and the switch on msg.Name.
Receive ==
    /\ pc.at = "Active" /\ bus.registered /\ ~bus.closed
    /\ nsteps < MaxSignals
    /\ \E msg \in Signals : \E ord \in Orders(DOMAIN VarMapOf(msg)) :
         LET h == HandleSignal(player, properties, msg, ord) IN
         /\ lastSig' = msg
         /\ properties' = h.properties
         /\ seen' = [(IF h.applied THEN LastValid(seen, VarMapOf(msg))
                       ELSE seen) EXCEPT !.sigs = Append(@, msg)]
         /\ cb' = IF Len(h.changeList) > 0
                  THEN [cb EXCEPT !.changes =
                          Append(@, [name |-> player.Name,
                                     changed |-> h.changeList])]
                  ELSE cb
         /\ pc' = IF h.outcome = "continue" THEN pc
                  ELSE [at |-> "RemoveSignal", why |-> h.outcome]
    /\ nsteps' = nsteps + 1
    /\ UNCHANGED <<player, upd, bus, remote, thr, reg, fn>>

\* msg, ok := <-signalCh with !ok: the channel was closed; break.
ReceiveClosed ==
    /\ pc.at = "Active" /\ bus.closed
    /\ pc' = [at |-> "RemoveSignal", why |-> "closed"]
    /\ UNCHANGED <<player, properties, upd, bus, cb, lastSig, seen, remote,
                   nsteps, thr, reg, fn>>

\* The connection is closed (the bus went away): it closes the channels
\* registered with Signal.
TransportClose ==
    /\ bus.registered /\ ~bus.closed
    /\ bus' = [bus EXCEPT !.closed = TRUE]
    /\ UNCHANGED <<player, properties, upd, pc, cb, lastSig, seen, remote,
                   nsteps, thr, reg, fn>>

\* The deferred function of the listener, statement by statement.
\* c.RemoveSignal(signalCh)
RemoveSignal ==
    /\ pc.at = "RemoveSignal"
    /\ bus' = [bus EXCEPT !.registered = FALSE]
    /\ pc' = [pc EXCEPT !.at = "OnDisconnect"]
    /\ UNCHANGED <<player, properties, upd, cb, lastSig, seen, remote, nsteps,
                   thr, reg, fn>>

\* onDisconnect(p.Name)
OnDisconnect ==
    /\ pc.at = "OnDisconnect"
    /\ cb' = [cb EXCEPT !.disconnects = Append(@, player.Name)]
    /\ pc' = [pc EXCEPT !.at = "RemoveMatchOwner"]
    /\ UNCHANGED <<player, properties, upd, bus, lastSig, seen, remote, nsteps,
                   thr, reg, fn>>

\* conn.RemoveMatchSignal(signalNameOwnerChangedOpts...)
RemoveMatchOwner ==
    /\ pc.at = "RemoveMatchOwner"
    /\ bus' = [bus EXCEPT !.matchOwner = FALSE]
    /\ pc' = [pc EXCEPT !.at = "RemoveMatchProps"]
    /\ UNCHANGED <<player, properties, upd, cb, lastSig, seen, remote, nsteps,
                   thr, reg, fn>>

\* conn.RemoveMatchSignal(signalPropertyChangeOpts...)
RemoveMatchProps ==
    /\ pc.at = "RemoveMatchProps"
    /\ bus' = [bus EXCEPT !.matchProps = FALSE]
    /\ pc' = [pc EXCEPT !.at = "CloseCh"]
    /\ UNCHANGED <<player, properties, upd, cb, lastSig, seen, remote, nsteps,
                   thr, reg, fn>>

\* defer close(signalCh): closing a closed channel panics, and a panic that
\* leaves the goroutine ends the process.
CloseCh ==
    /\ pc.at = "CloseCh"
    /\ IF bus.closed
       THEN /\ pc' = [pc EXCEPT !.at = "Crashed"]
            /\ UNCHANGED bus
       ELSE /\ bus' = [bus EXCEPT !.closed = TRUE]
            /\ pc' = [pc EXCEPT !.at = IF pc.why = "panic" THEN "Crashed"
                                       ELSE "Done"]
    /\ UNCHANGED <<player, properties, upd, cb, lastSig, seen, remote, nsteps,
                   thr, reg, fn>>

Next ==
    \/ NewPlayer
    \/ Receive
    \/ ReceiveClosed
    \/ TransportClose
    \/ RemoveSignal
    \/ OnDisconnect
    \/ RemoveMatchOwner
    \/ RemoveMatchProps
    \/ CloseCh

Spec == Init /\ [][Next]_vars

-----------------------------------------------------------------------------
(* SpecCtl: the control operations of a constructed player.                *)

\* Largest number of control operations called.
MaxOps == 3

\* What a Properties.Get of a capability may answer: a transport error, or a
\* value that is true, false or not a boolean.
Replies ==
    {[err |-> TRUE], [err |-> FALSE, val |-> B(TRUE)],
     [err |-> FALSE, val |-> B(FALSE)], [err |-> FALSE, val |-> S("true")]}

ReplyTrue  == [err |-> FALSE, val |-> B(TRUE)]
ReplyFalse == [err |-> FALSE, val |-> B(FALSE)]

\* CanRaise, CanQuit, CanPlay, CanControl, CanPause, CanGoNext, CanGoPrevious,
\* CanSeek: the same body, for the property prop; caps is what the remote
\* player answers for each property.
CanLenient(caps, prop) ==
    IF caps[prop].err THEN FALSE
    ELSE IF IsBool(caps[prop].val) /\ ~caps[prop].val.b THEN FALSE
    ELSE TRUE

Can(caps, prop) ==
    IF caps[prop].err THEN FALSE
    ELSE IF ~IsBool(caps[prop].val)
            \/ (IsBool(caps[prop].val) /\ ~caps[prop].val.b) THEN FALSE
    ELSE TRUE

\* The errors a control operation returns. wraps is the error that errors.Is
\* finds in it: fmt.Errorf with %s keeps the text only, with %w the error.
NoError == [err |-> "nil"]
Unsupported(op) == [err |-> "unsupported", op |-> op, wraps |-> "none"]
CallFailed(op)  == [err |-> "transport", op |-> op, wraps |-> "call.Err"]

\* What a control operation did: the capability properties it read, the
\* methods it called, and the error it returned.
Outcome(queries, calls, ret) ==
    [queries |-> queries, calls |-> calls, ret |-> ret]

\* makeRootCall / makePlayerCall, and the wrapping of its error.
MakeCall(op, queries, method, args, callErr) ==
    Outcome(queries, <<[method |-> method, args |-> args]>>,
            IF callErr THEN CallFailed(op) ELSE NoError)

Raise(cached, caps, callErr) ==
    IF ~Can(caps, "CanRaise")
    THEN Outcome(<<"CanRaise">>, <<>>, Unsupported("Raise"))
    ELSE MakeCall("Raise", <<"CanRaise">>, "org.mpris.MediaPlayer2.Raise",
                  <<>>, callErr)

Quit(cached, caps, callErr) ==
    IF ~Can(caps, "CanQuit")
    THEN Outcome(<<"CanQuit">>, <<>>, Unsupported("Quit"))
    ELSE MakeCall("Quit", <<"CanQuit">>, "org.mpris.MediaPlayer2.Quit",
                  <<>>, callErr)

PlayNoShortcut(cached, caps, callErr) ==
    IF ~Can(caps, "CanPlay")
    THEN Outcome(<<"CanPlay">>, <<>>, Unsupported("Play"))
    ELSE MakeCall("Play", <<"CanPlay">>, "org.mpris.MediaPlayer2.Player.Play",
                  <<>>, callErr)

Play(cached, caps, callErr) ==
    IF cached = PlaybackStatusPlaying THEN Outcome(<<>>, <<>>, NoError)
    ELSE IF ~Can(caps, "CanPlay")
    THEN Outcome(<<"CanPlay">>, <<>>, Unsupported("Play"))
    ELSE MakeCall("Play", <<"CanPlay">>, "org.mpris.MediaPlayer2.Player.Play",
                  <<>>, callErr)

Stop(cached, caps, callErr) ==
    IF cached = PlaybackStatusStopped THEN Outcome(<<>>, <<>>, NoError)
    ELSE IF ~Can(caps, "CanControl")
    THEN Outcome(<<"CanControl">>, <<>>, Unsupported("Stop"))
    ELSE MakeCall("Stop", <<"CanControl">>,
                  "org.mpris.MediaPlayer2.Player.Stop", <<>>, callErr)

PauseNoGate(cached, caps, callErr) ==
    IF cached = PlaybackStatusPaused THEN Outcome(<<>>, <<>>, NoError)
    ELSE MakeCall("Pause", <<>>, "org.mpris.MediaPlayer2.Player.Pause",
                  <<>>, callErr)

Pause(cached, caps, callErr) ==
    IF cached = PlaybackStatusPaused THEN Outcome(<<>>, <<>>, NoError)
    ELSE IF ~Can(caps, "CanPause")
    THEN Outcome(<<"CanPause">>, <<>>, Unsupported("Pause"))
    ELSE MakeCall("Pause", <<"CanPause">>,
                  "org.mpris.MediaPlayer2.Player.Pause", <<>>, callErr)

PlayPauseEither(cached, caps, callErr) ==
    IF ~Can(caps, "CanPause") /\ ~Can(caps, "CanPlay")
    THEN Outcome(<<"CanPause", "CanPlay">>, <<>>, Unsupported("PlayPause"))
    ELSE MakeCall("PlayPause",
                  IF Can(caps, "CanPause") THEN <<"CanPause">>
                  ELSE <<"CanPause", "CanPlay">>,
                  "org.mpris.MediaPlayer2.Player.PlayPause", <<>>, callErr)

\* !p.CanPause() || !p.CanPlay(): CanPlay is read only when CanPause holds.
PlayPause(cached, caps, callErr) ==
    IF ~Can(caps, "CanPause")
    THEN Outcome(<<"CanPause">>, <<>>, Unsupported("PlayPause"))
    ELSE IF ~Can(caps, "CanPlay")
    THEN Outcome(<<"CanPause", "CanPlay">>, <<>>, Unsupported("PlayPause"))
    ELSE MakeCall("PlayPause", <<"CanPause", "CanPlay">>,
                  "org.mpris.MediaPlayer2.Player.PlayPause", <<>>, callErr)

GoNext(cached, caps, callErr) ==
    IF ~Can(caps, "CanGoNext")
    THEN Outcome(<<"CanGoNext">>, <<>>, Unsupported("Next"))
    ELSE MakeCall("Next", <<"CanGoNext">>,
                  "org.mpris.MediaPlayer2.Player.Next", <<>>, callErr)

Previous(cached, caps, callErr) ==
    IF ~Can(caps, "CanGoPrevious")
    THEN Outcome(<<"CanGoPrevious">>, <<>>, Unsupported("Previous"))
    ELSE MakeCall("Previous", <<"CanGoPrevious">>,
                  "org.mpris.MediaPlayer2.Player.Previous", <<>>, callErr)

\* time.Second, in nanoseconds.
Second == 1000000000

\* (time.Duration(seconds) * time.Second).Microseconds()
SeekMicroseconds(seconds) == (seconds * Second) \div Microsecond

Seek(cached, caps, callErr, seconds) ==
    IF ~Can(caps, "CanSeek")
    THEN Outcome(<<"CanSeek">>, <<>>, Unsupported("Seek"))
    ELSE MakeCall("Seek", <<"CanSeek">>,
                  "org.mpris.MediaPlayer2.Player.Seek",
                  <<SeekMicroseconds(seconds)>>, callErr)

\* SetPosition and OpenUri: return ErrNotImplemented, the sentinel itself.
ErrNotImplemented == [err |-> "not implemented", wraps |-> "ErrNotImplemented"]

SetPositionSeeks(cached, caps, callErr, trackID, microseconds) ==
    IF ~Can(caps, "CanSeek")
    THEN Outcome(<<"CanSeek">>, <<>>, Unsupported("SetPosition"))
    ELSE MakeCall("SetPosition", <<"CanSeek">>,
                  "org.mpris.MediaPlayer2.Player.SetPosition",
                  <<trackID, microseconds>>, callErr)

SetPosition(cached, caps, callErr, trackID, microseconds) ==
    Outcome(<<>>, <<>>, ErrNotImplemented)

OpenUri(cached, caps, callErr, uri) ==
    Outcome(<<>>, <<>>, ErrNotImplemented)

\* The offsets Seek is called with: within the range where TLC's integers
\* hold seconds * time.Second.
SeekOffsets == {-2, 1}

\* A player that NewPlayer returned without error, before any signal.
InitCtl ==
    /\ player = [Name |-> PlayerName, Short |-> ShortOf(PlayerName),
                 ownerID |-> OwnerE, isConnected |-> TRUE, err |-> "none"]
    /\ properties = UpdateProperties(NilProperties, <<>>, <<>>).properties
    /\ pc = [at |-> "Active", why |-> ""]
    /\ bus = [fetched |-> TRUE, subscribes |-> 2, failed |-> 0,
              matchProps |-> TRUE, matchOwner |-> TRUE,
              registered |-> TRUE, closed |-> FALSE]
    /\ upd = updIdle /\ cb = cbIdle /\ lastSig = sigIdle /\ seen = seenIdle
    /\ remote = remoteIdle /\ nsteps = 0
    /\ thr = thrIdle /\ reg = regIdle /\ fn = fnIdle

\* The arguments SetPosition and OpenUri are called with.
TrackIDs  == {"/org/mpris/MediaPlayer2/TrackList/NoTrack", "/track/1"}
Positions == {-1, 0, 5000}
Uris      == {"", "file:///a.ogg"}

\* A caller invokes an operation with args; out is what it did.
CalledWith(op, args, caps, callErr, out) ==
    /\ nsteps' = nsteps + 1
    /\ remote' = [op |-> op, args |-> args,
                  cached |-> properties.PlaybackStatus,
                  caps |-> caps, callErr |-> callErr,
                  queries |-> out.queries, calls |-> out.calls,
                  ret |-> out.ret,
                  total |-> remote.total + Len(out.queries) + Len(out.calls)]
    /\ UNCHANGED <<player, properties, upd, pc, bus, cb, lastSig, seen,
                   thr, reg, fn>>

Called(op, caps, callErr, out) == CalledWith(op, <<>>, caps, callErr, out)

CallRaise ==
    /\ nsteps < MaxOps
    /\ \E caps \in [{"CanRaise"} -> Replies], callErr \in BOOLEAN :
         Called("Raise", caps, callErr,
                Raise(properties.PlaybackStatus, caps, callErr))

CallQuit ==
    /\ nsteps < MaxOps
    /\ \E caps \in [{"CanQuit"} -> Replies], callErr \in BOOLEAN :
         Called("Quit", caps, callErr,
                Quit(properties.PlaybackStatus, caps, callErr))

CallPlay ==
    /\ nsteps < MaxOps
    /\ \E caps \in [{"CanPlay"} -> Replies], callErr \in BOOLEAN :
         Called("Play", caps, callErr,
                Play(properties.PlaybackStatus, caps, callErr))

CallStop ==
    /\ nsteps < MaxOps
    /\ \E caps \in [{"CanControl"} -> Replies], callErr \in BOOLEAN :
         Called("Stop", caps, callErr,
                Stop(properties.PlaybackStatus, caps, callErr))

CallPause ==
    /\ nsteps < MaxOps
    /\ \E caps \in [{"CanPause"} -> Replies], callErr \in BOOLEAN :
         Called("Pause", caps, callErr,
                Pause(properties.PlaybackStatus, caps, callErr))

CallPlayPause ==
    /\ nsteps < MaxOps
    /\ \E caps \in [{"CanPause", "CanPlay"} -> Replies], callErr \in BOOLEAN :
         Called("PlayPause", caps, callErr,
                PlayPause(properties.PlaybackStatus, caps, callErr))

CallNext ==
    /\ nsteps < MaxOps
    /\ \E caps \in [{"CanGoNext"} -> Replies], callErr \in BOOLEAN :
         Called("Next", caps, callErr,
                GoNext(properties.PlaybackStatus, caps, callErr))

CallPrevious ==
    /\ nsteps < MaxOps
    /\ \E caps \in [{"CanGoPrevious"} -> Replies], callErr \in BOOLEAN :
         Called("Previous", caps, callErr,
                Previous(properties.PlaybackStatus, caps, callErr))

CallSeek ==
    /\ nsteps < MaxOps
    /\ \E caps \in [{"CanSeek"} -> Replies], callErr \in BOOLEAN,
          seconds \in SeekOffsets :
         Called("Seek", caps, callErr,
                Seek(properties.PlaybackStatus, caps, callErr, seconds))

\* caps and callErr are what the endpoint would answer, were it asked.
CallSetPosition ==
    /\ nsteps < MaxOps
    /\ \E caps \in [{"CanSeek"} -> {ReplyTrue, ReplyFalse}],
          callErr \in BOOLEAN, trackID \in TrackIDs, us \in Positions :
         CalledWith("SetPosition", <<trackID, us>>, caps, callErr,
                    SetPosition(properties.PlaybackStatus, caps, callErr,
                                trackID, us))

CallOpenUri ==
    /\ nsteps < MaxOps
    /\ \E caps \in [{"CanControl"} -> {ReplyTrue, ReplyFalse}],
          callErr \in BOOLEAN, uri \in Uris :
         CalledWith("OpenUri", <<uri>>, caps, callErr,
                    OpenUri(properties.PlaybackStatus, caps, callErr, uri))

\* The listener applies a PropertiesChanged that carries a playback status.
StatusChanged ==
    /\ \E v \in BatchValues("PlaybackStatus") :
         properties' =
            UpdateProperties(properties, "PlaybackStatus" :> v,
                             <<"PlaybackStatus">>).properties
    /\ properties' # properties
    /\ UNCHANGED <<player, upd, pc, bus, cb, lastSig, seen, remote, nsteps,
                   thr, reg, fn>>

NextCtl ==
    \/ CallRaise
    \/ CallQuit
    \/ CallPlay
    \/ CallStop
    \/ CallPause
    \/ CallPlayPause
    \/ CallNext
    \/ CallPrevious
    \/ CallSeek
    \/ CallSetPosition
    \/ CallOpenUri
    \/ StatusChanged

SpecCtl == InitCtl /\ [][NextCtl]_vars

-----------------------------------------------------------------------------
(* SpecLock: the goroutines that share properties. UpdateProperties runs   *)
(* statement by statement under the mutex; the accessors read the fields   *)
(* with no lock, a struct one field at a time.                             *)

\* Largest number of UpdateProperties calls of a goroutine, and of reads.
MaxCalls == 1

\* The goroutines that call UpdateProperties: the listener of Register, and
\* another caller of the exported method.
Writers == {"listener", "caller"}

\* The batches they apply.
LockBatches ==
    {("PlaybackStatus" :> S("Playing")) @@ ("Metadata" :> M(BagA)),
     ("Shuffle" :> B(TRUE)) @@ ("LoopStatus" :> S("Track")),
     "Metadata" :> S("not a bag")}

\* The fields of Media, in the order of the struct.
MediaFields ==
    <<"ID", "Length", "ArtURL", "Artist", "Album", "AlbumArtist", "Title",
      "Genre", "Year", "URL">>

\* The accessors and the cached-status checks of Play, Pause and Stop.
StatusReaders == {"GetPlaybackStatus", "IsPlaying", "Play", "Pause", "Stop"}

writerIdle == [at |-> "idle", n |-> 0, batch |-> <<>>, keys |-> {},
               mkeys |-> {}, changeList |-> <<>>, pre |-> NilProperties,
               post |-> NilProperties]
readerIdle == [at |-> "idle", n |-> 0, op |-> "", idx |-> 1,
               got |-> MediaZero, open |-> FALSE, stable |-> {}]

\* p.properties.Lock() returns once the mutex is free.
CanLockAlways(w) == TRUE

CanLock(w) == thr.lock = ""

\* A player that NewPlayer returned, paused on a track.
InitLock ==
    /\ player = [Name |-> PlayerName, Short |-> ShortOf(PlayerName),
                 ownerID |-> OwnerE, isConnected |-> TRUE, err |-> "none"]
    /\ \E ord \in Orders({"PlaybackStatus", "LoopStatus", "Metadata"}) :
         properties =
           UpdateProperties(NilProperties,
                            ("PlaybackStatus" :> S("Paused"))
                            @@ ("LoopStatus" :> S("None"))
                            @@ ("Metadata" :> M(BagB)), ord).properties
    /\ pc = [at |-> "Active", why |-> ""]
    /\ bus = [fetched |-> TRUE, subscribes |-> 2, failed |-> 0,
              matchProps |-> TRUE, matchOwner |-> TRUE,
              registered |-> TRUE, closed |-> FALSE]
    /\ upd = updIdle /\ cb = cbIdle /\ lastSig = sigIdle /\ seen = seenIdle
    /\ remote = remoteIdle /\ nsteps = 0 /\ reg = regIdle /\ fn = fnIdle
    /\ thr = [lock |-> "", w |-> [w \in Writers |-> writerIdle],
              r |-> readerIdle]

\* UpdateProperties(props) up to p.properties.Lock(): properties is not nil.
LockProperties(w) ==
    /\ thr.w[w].at = "idle" /\ thr.w[w].n < MaxCalls
    /\ CanLock(w)
    /\ \E batch \in LockBatches :
         thr' = [thr EXCEPT !.lock = w,
                            !.w[w] = [@ EXCEPT !.at = "loop", !.batch = batch,
                                               !.keys = DOMAIN batch,
                                               !.mkeys = {},
                                               !.changeList = <<>>,
                                               !.pre = properties,
                                               !.post = NilProperties]]
    /\ UNCHANGED <<player, properties, upd, pc, bus, cb, lastSig, seen, remote,
                   nsteps, reg, fn>>

\* One iteration of the range loop: a case of the switch. The Metadata case
\* with a bag enters decodeMetadata, whose loop runs in DecodeStep.
LoopStep(w) ==
    /\ thr.w[w].at = "loop"
    /\ \E key \in thr.w[w].keys :
         LET val == thr.w[w].batch[key] IN
         IF key = "Metadata" /\ IsBag(val)
         THEN /\ thr' = [thr EXCEPT !.w[w] = [@ EXCEPT !.at = "decode",
                                                     !.mkeys = DOMAIN val.m]]
              /\ UNCHANGED properties
         ELSE LET r == UpdateKey(properties, key, val) IN
              /\ properties' = r.p
              /\ thr' = [thr EXCEPT !.w[w] =
                           [@ EXCEPT !.keys = @ \ {key},
                                     !.changeList =
                                        IF r.changed THEN Append(@, key)
                                        ELSE @]]
    /\ UNCHANGED <<player, upd, pc, bus, cb, lastSig, seen, remote, nsteps,
                   reg, fn>>

\* One iteration of the loop of decodeMetadata, writing into
\* p.properties.Media.
DecodeStep(w) ==
    /\ thr.w[w].at = "decode"
    /\ \E key \in thr.w[w].mkeys :
         /\ properties' =
              [properties EXCEPT !.Media =
                 DecodeKey(@, key, thr.w[w].batch["Metadata"].m[key])]
         /\ thr' = [thr EXCEPT !.w[w] = [@ EXCEPT !.mkeys = @ \ {key}]]
    /\ UNCHANGED <<player, upd, pc, bus, cb, lastSig, seen, remote, nsteps,
                   reg, fn>>

\* decodeMetadata returns nil, and the Metadata case appends its key.
DecodeReturn(w) ==
    /\ thr.w[w].at = "decode" /\ thr.w[w].mkeys = {}
    /\ thr' = [thr EXCEPT !.w[w] =
                 [@ EXCEPT !.at = "loop", !.keys = @ \ {"Metadata"},
                           !.changeList = Append(@, "Metadata")]]
    /\ UNCHANGED <<player, properties, upd, pc, bus, cb, lastSig, seen, remote,
                   nsteps, reg, fn>>

\* The loop is over: return, and the deferred p.properties.Unlock(). A read
\* that is open takes this state as one it may have observed.
UnlockProperties(w) ==
    /\ thr.w[w].at = "loop" /\ thr.w[w].keys = {}
    /\ thr' = [thr EXCEPT
                 !.lock = IF @ = w THEN "" ELSE @,
                 !.w[w] = [@ EXCEPT !.at = "idle", !.n = @ + 1,
                                    !.post = properties],
                 !.r = IF thr.r.open
                       THEN [@ EXCEPT !.stable = @ \cup {properties},
                                      !.open = thr.r.at # "done"]
                       ELSE @]
    /\ UNCHANGED <<player, properties, upd, pc, bus, cb, lastSig, seen, remote,
                   nsteps, reg, fn>>

\* The state before the batch in progress, or the state as it is.
Boundary ==
    IF thr.lock = "" THEN properties ELSE thr.w[thr.lock].pre

\* GetPlaybackStatus, IsPlaying and the first statement of Play, Pause and
\* Stop: one read of p.properties.PlaybackStatus.
ReadStatus ==
    /\ thr.r.at = "idle" /\ thr.r.n < MaxCalls
    /\ \E op \in StatusReaders :
         thr' = [thr EXCEPT !.r =
                   [@ EXCEPT !.at = "done", !.n = @ + 1, !.op = op,
                             !.got = properties.PlaybackStatus,
                             !.open = thr.lock # "",
                             !.stable = {Boundary}]]
    /\ UNCHANGED <<player, properties, upd, pc, bus, cb, lastSig, seen, remote,
                   nsteps, reg, fn>>

\* GetMetadata: return p.properties.Media copies the struct.
GetMetadata ==
    /\ thr.r.at = "idle" /\ thr.r.n < MaxCalls
    /\ thr' = [thr EXCEPT !.r =
                 [@ EXCEPT !.at = "copy", !.n = @ + 1, !.op = "GetMetadata",
                           !.idx = 1, !.got = MediaZero, !.open = TRUE,
                           !.stable = {Boundary}]]
    /\ UNCHANGED <<player, properties, upd, pc, bus, cb, lastSig, seen, remote,
                   nsteps, reg, fn>>

\* The copy of one field of the struct.
CopyField ==
    /\ thr.r.at = "copy"
    /\ LET f == MediaFields[thr.r.idx]
           last == thr.r.idx = Len(MediaFields)
       IN  thr' = [thr EXCEPT !.r =
                     [@ EXCEPT !.got = [@ EXCEPT ![f] = properties.Media[f]],
                               !.idx = @ + 1,
                               !.at = IF last THEN "done" ELSE "copy",
                               !.open = ~(last /\ thr.lock = "")]]
    /\ UNCHANGED <<player, properties, upd, pc, bus, cb, lastSig, seen, remote,
                   nsteps, reg, fn>>

\* The caller takes the value read, and may read again.
ReadReturn ==
    /\ thr.r.at = "done" /\ ~thr.r.open
    /\ thr' = [thr EXCEPT !.r = [readerIdle EXCEPT !.n = thr.r.n]]
    /\ UNCHANGED <<player, properties, upd, pc, bus, cb, lastSig, seen, remote,
                   nsteps, reg, fn>>

NextLock ==
    \/ \E w \in Writers : LockProperties(w)
    \/ \E w \in Writers : LoopStep(w)
    \/ \E w \in Writers : DecodeStep(w)
    \/ \E w \in Writers : DecodeReturn(w)
    \/ \E w \in Writers : UnlockProperties(w)
    \/ ReadStatus
    \/ GetMetadata
    \/ CopyField
    \/ ReadReturn

SpecLock == InitLock /\ [][NextLock]_vars

-----------------------------------------------------------------------------
(* SpecReg: main's players slice, shared with no lock by the discovery     *)
(* goroutine, which appends, and the onDisconnect callbacks of the         *)
(* listeners, which remove. A slice is a header (array, len) over an array *)
(* of the heap; the elements are the numbers of the handles NewPlayer made.*)

\* Largest number of events of the bus: NameOwnerChanged signals sent, and
\* the connection closing.
MaxRegSignals == 2

RegNames  == {PlayerName, OtherName}
RegOwners == {"", OwnerE, OtherOwner}

\* A nil slice, and the header of a slice.
NilSlice == [a |-> 0, len |-> 0]

SliceCap(heap, hdr) == IF hdr.a = 0 THEN 0 ELSE Len(heap[hdr.a])

\* The elements of the slice.
SliceElems(heap, hdr) ==
    IF hdr.a = 0 THEN <<>> ELSE SubSeq(heap[hdr.a], 1, hdr.len)

\* append(s, x): in place when the capacity allows, else into a new array of
\* twice the capacity. The heap and the header after it.
GoAppend(heap, hdr, x) ==
    LET cap == SliceCap(heap, hdr) IN
    IF hdr.len < cap
    THEN [heap |-> [heap EXCEPT ![hdr.a][hdr.len + 1] = x],
          hdr |-> [hdr EXCEPT !.len = @ + 1]]
    ELSE LET newcap == IF cap = 0 THEN 1 ELSE 2 * cap
             arr == [k \in 1..newcap |->
                       IF k <= hdr.len THEN heap[hdr.a][k]
                       ELSE IF k = hdr.len + 1 THEN x ELSE 0]
         IN  [heap |-> Append(heap, arr),
              hdr |-> [a |-> Len(heap) + 1, len |-> hdr.len + 1]]

\* append(s[:i], s[i+1:]...), i counted from 0, for the header cur of s: the
\* elements after i move down by one inside the array.
GoRemove(heap, cur, i) ==
    [heap |-> [heap EXCEPT ![cur.a] =
                 [k \in DOMAIN @ |->
                    IF k > i /\ k < cur.len /\ k + 1 <= Len(@)
                    THEN @[k + 1] ELSE @[k]]],
     hdr |-> [cur EXCEPT !.len = @ - 1]]

\* s[i+1:] panics when i+1 is beyond len(s).
RemovePanics(cur, i) == i + 1 > cur.len

\* A handle NewPlayer returned, with the goroutine of its listener: at is the
\* listener's position ("None": NewPlayer failed, no listener), q the signals
\* waiting on its channel, hdr and i the range loop of onDisconnect, cur the
\* header read by the removal.
Handle(name, ownerID, err) ==
    [Name |-> name, ownerID |-> ownerID, err |-> err,
     at |-> IF err = "none" THEN "Active" ELSE "None",
     q |-> <<>>, closed |-> FALSE, hdr |-> NilSlice, i |-> 0,
     cur |-> NilSlice]

\* p.Name of the element x of the slice; 0 is the zero Player.
NameOf(handles, x) == IF x = 0 THEN "" ELSE handles[x].Name

\* The discovery goroutine's tests on a signal: NewPlayer is called.
Discovers(msg) ==
    /\ msg.Name = signalNameOwnerChanged
    /\ Len(msg.Body) = 3
    /\ IsString(msg.Body[1]) /\ HasValidDestinationName(msg.Body[1].s)
    /\ IsString(msg.Body[3]) /\ msg.Body[3].s # ""

\* After main's loop over ListNames found the one player and appended it.
InitReg ==
    /\ player = playerZero /\ properties = NilProperties
    /\ upd = updIdle /\ pc = pcIdle /\ bus = busIdle /\ cb = cbIdle
    /\ lastSig = sigIdle /\ seen = seenIdle /\ remote = remoteIdle
    /\ nsteps = 0 /\ thr = thrIdle /\ fn = fnIdle
    /\ reg = [owner |-> [n \in RegNames |->
                           IF n = PlayerName THEN OwnerE ELSE ""],
              handles |-> <<Handle(PlayerName, OwnerE, "none")>>,
              heap |-> <<(<<1>>)>>,
              players |-> [a |-> 1, len |-> 1],
              disc |-> [at |-> "recv", q |-> <<>>, h |-> 0, hdr |-> NilSlice],
              closed |-> FALSE, crashed |-> FALSE]

\* The bus daemon: a name is released, acquired or changes hands, and the
\* NameOwnerChanged goes to every channel registered with Signal.
OwnerChanges ==
    /\ ~reg.crashed /\ ~reg.closed /\ nsteps < MaxRegSignals
    /\ \E n \in RegNames : \E o \in RegOwners \ {reg.owner[n]} :
         LET msg == Sig(signalNameOwnerChanged, BusDaemon,
                        <<S(n), S(reg.owner[n]), S(o)>>)
         IN  reg' = [reg EXCEPT
                       !.owner[n] = o,
                       !.disc.q = IF reg.disc.at = "ended" THEN @
                                  ELSE Append(@, msg),
                       !.handles =
                          [h \in DOMAIN @ |->
                             IF @[h].at = "Active"
                             THEN [@[h] EXCEPT !.q = Append(@, msg)]
                             ELSE @[h]]]
    /\ nsteps' = nsteps + 1
    /\ UNCHANGED <<player, properties, upd, pc, bus, cb, lastSig, seen, remote,
                   thr, fn>>

\* The connection is closed: every channel registered with Signal is closed.
RegTransportClose ==
    /\ ~reg.crashed /\ ~reg.closed /\ nsteps < MaxRegSignals
    /\ nsteps' = nsteps + 1
    /\ reg' = [reg EXCEPT
                 !.closed = TRUE,
                 !.handles = [h \in DOMAIN @ |->
                                IF @[h].at = "Active"
                                THEN [@[h] EXCEPT !.closed = TRUE]
                                ELSE @[h]]]
    /\ UNCHANGED <<player, properties, upd, pc, bus, cb, lastSig, seen, remote,
                   thr, fn>>

\* The discovery goroutine takes a signal; for a name that got an owner it
\* calls NewPlayer and goes on to append. NewPlayer may fail at GetAll, and
\* does fail when the name has no owner by now or the connection is closed.
DiscoveryReceive ==
    /\ ~reg.crashed /\ reg.disc.at = "recv" /\ reg.disc.q # <<>>
    /\ LET msg == Head(reg.disc.q) IN
       IF Discovers(msg)
       THEN \E err \in {"none", "call"} :
              /\ err = "none" =>
                   (reg.owner[msg.Body[1].s] # "" /\ ~reg.closed)
              /\ reg' = [reg EXCEPT
                        !.disc = [@ EXCEPT !.q = Tail(@), !.at = "read",
                                           !.h = Len(reg.handles) + 1],
                        !.handles =
                           Append(@, Handle(msg.Body[1].s, msg.Body[3].s, err))]
       ELSE reg' = [reg EXCEPT !.disc.q = Tail(@)]
    /\ UNCHANGED <<player, properties, upd, pc, bus, cb, lastSig, seen, remote,
                   nsteps, thr, fn>>

\* msg, ok := <-signalCh with !ok: the discovery goroutine ends.
DiscoveryEnds ==
    /\ ~reg.crashed /\ reg.disc.at = "recv" /\ reg.disc.q = <<>> /\ reg.closed
    /\ reg' = [reg EXCEPT !.disc.at = "ended"]
    /\ UNCHANGED <<player, properties, upd, pc, bus, cb, lastSig, seen, remote,
                   nsteps, thr, fn>>

\* players = append(players, player): the slice is read ...
DiscoveryRead ==
    /\ ~reg.crashed /\ reg.disc.at = "read"
    /\ reg' = [reg EXCEPT !.disc = [@ EXCEPT !.at = "write",
                                             !.hdr = reg.players]]
    /\ UNCHANGED <<player, properties, upd, pc, bus, cb, lastSig, seen, remote,
                   nsteps, thr, fn>>

\* ... and the slice with the player appended is stored.
DiscoveryWrite ==
    /\ ~reg.crashed /\ reg.disc.at = "write"
    /\ LET r == GoAppend(reg.heap, reg.disc.hdr, reg.disc.h) IN
       reg' = [reg EXCEPT !.heap = r.heap, !.players = r.hdr,
                          !.disc = [@ EXCEPT !.at = "recv", !.h = 0,
                                             !.hdr = NilSlice]]
    /\ UNCHANGED <<player, properties, upd, pc, bus, cb, lastSig, seen, remote,
                   nsteps, thr, fn>>

\* The listener of handle h takes a signal from its channel.
ListenerReceive(h) ==
    /\ ~reg.crashed /\ reg.handles[h].at = "Active" /\ reg.handles[h].q # <<>>
    /\ LET msg == Head(reg.handles[h].q)
           o   == HandleSignal(reg.handles[h], NilProperties, msg, <<>>)
       IN  reg' = [reg EXCEPT !.handles[h] =
                     [@ EXCEPT !.q = Tail(@),
                               !.at = IF o.outcome = "continue" THEN "Active"
                                      ELSE "RemoveSignal"]]
    /\ UNCHANGED <<player, properties, upd, pc, bus, cb, lastSig, seen, remote,
                   nsteps, thr, fn>>

\* msg, ok := <-signalCh with !ok.
ListenerClosed(h) ==
    /\ ~reg.crashed /\ reg.handles[h].at = "Active" /\ reg.handles[h].q = <<>>
    /\ reg.handles[h].closed
    /\ reg' = [reg EXCEPT !.handles[h].at = "RemoveSignal"]
    /\ UNCHANGED <<player, properties, upd, pc, bus, cb, lastSig, seen, remote,
                   nsteps, thr, fn>>

\* c.RemoveSignal(signalCh), then onDisconnect(p.Name) up to the range
\* expression: for i, player := range *players.
RangePlayers(h) ==
    /\ ~reg.crashed /\ reg.handles[h].at = "RemoveSignal"
    /\ reg' = [reg EXCEPT !.handles[h] =
                 [@ EXCEPT !.at = "Range", !.q = <<>>, !.hdr = reg.players,
                           !.i = 0]]
    /\ UNCHANGED <<player, properties, upd, pc, bus, cb, lastSig, seen, remote,
                   nsteps, thr, fn>>

\* One iteration: if player.Name == name, the slice is read for the removal;
\* s[i+1:] beyond its length panics.
RangeStep(h) ==
    /\ ~reg.crashed /\ reg.handles[h].at = "Range"
    /\ LET hd == reg.handles[h] IN
       IF hd.i >= hd.hdr.len
       THEN reg' = [reg EXCEPT !.handles[h] =
                      [@ EXCEPT !.at = "Finish", !.hdr = NilSlice, !.i = 0]]
       ELSE IF NameOf(reg.handles, reg.heap[hd.hdr.a][hd.i + 1]) # hd.Name
       THEN reg' = [reg EXCEPT !.handles[h].i = @ + 1]
       ELSE IF RemovePanics(reg.players, hd.i)
       THEN reg' = [reg EXCEPT !.crashed = TRUE,
                               !.handles[h].at = "Crashed"]
       ELSE reg' = [reg EXCEPT !.handles[h] =
                      [@ EXCEPT !.at = "Remove", !.cur = reg.players]]
    /\ UNCHANGED <<player, properties, upd, pc, bus, cb, lastSig, seen, remote,
                   nsteps, thr, fn>>

\* *players = append((*players)[:i], (*players)[i+1:]...): the elements move
\* and the shorter slice is stored.
RemovePlayer(h) ==
    /\ ~reg.crashed /\ reg.handles[h].at = "Remove"
    /\ LET hd == reg.handles[h]
           r  == GoRemove(reg.heap, hd.cur, hd.i)
       IN  reg' = [reg EXCEPT !.heap = r.heap, !.players = r.hdr,
                              !.handles[h] =
                                 [@ EXCEPT !.at = "Range", !.i = @ + 1,
                                           !.cur = NilSlice]]
    /\ UNCHANGED <<player, properties, upd, pc, bus, cb, lastSig, seen, remote,
                   nsteps, thr, fn>>

\* onDisconnect returned: both RemoveMatchSignal calls and close(signalCh),
\* which panics on a channel the connection closed.
ListenerFinish(h) ==
    /\ ~reg.crashed /\ reg.handles[h].at = "Finish"
    /\ IF reg.handles[h].closed
       THEN reg' = [reg EXCEPT !.crashed = TRUE, !.handles[h].at = "Crashed"]
       ELSE reg' = [reg EXCEPT !.handles[h] =
                      [@ EXCEPT !.at = "Done", !.closed = TRUE]]
    /\ UNCHANGED <<player, properties, upd, pc, bus, cb, lastSig, seen, remote,
                   nsteps, thr, fn>>

NextReg ==
    \/ OwnerChanges
    \/ RegTransportClose
    \/ DiscoveryReceive
    \/ DiscoveryEnds
    \/ DiscoveryRead
    \/ DiscoveryWrite
    \/ \E h \in DOMAIN reg.handles : ListenerReceive(h)
    \/ \E h \in DOMAIN reg.handles : ListenerClosed(h)
    \/ \E h \in DOMAIN reg.handles : RangePlayers(h)
    \/ \E h \in DOMAIN reg.handles : RangeStep(h)
    \/ \E h \in DOMAIN reg.handles : RemovePlayer(h)
    \/ \E h \in DOMAIN reg.handles : ListenerFinish(h)

SpecReg == InitReg /\ [][NextReg]_vars

-----------------------------------------------------------------------------
(* Claims about UpdateProperties, under SpecUpd.                           *)

Range(q) == {q[i] : i \in DOMAIN q}

RecognizedKeys == {"Shuffle", "PlaybackStatus", "LoopStatus", "Metadata"}

\* What the claims call the cached value of the field that key k names.
Field(p, k) ==
    CASE k = "Shuffle" -> B(p.Shuffle)
      [] k = "PlaybackStatus" -> S(p.PlaybackStatus)
      [] k = "LoopStatus" -> S(p.LoopStatus)
      [] k = "Metadata" -> M(p.Media)

\* Key k of the batch is present, well-typed, valid and, for a scalar field,
\* different from the value cached in pre.
Accepted(pre, batch, k) ==
    /\ k \in DOMAIN batch
    /\ CASE k = "Shuffle" ->
              batch[k].t = "bool" /\ batch[k].b # pre.Shuffle
         [] k = "PlaybackStatus" ->
              /\ batch[k].t = "string"
              /\ batch[k].s \in {"Playing", "Paused", "Stopped"}
              /\ batch[k].s # pre.PlaybackStatus
         [] k = "LoopStatus" ->
              /\ batch[k].t = "string"
              /\ (IF batch[k].s \in {"None", "Track", "Playlist"}
                  THEN batch[k].s ELSE "None") # pre.LoopStatus
         [] k = "Metadata" -> batch[k].t = "map[string]dbus.Variant"

\* C3: UpdateProperties returns exactly the recognized keys of the batch that
\* are present, well-typed, valid and (scalars) different from the cached
\* value, each once; a key not accepted leaves its field as it was.
C3_ChangeSetExact ==
    upd.n > 0 =>
      /\ Range(upd.changeList)
           = {k \in RecognizedKeys : Accepted(upd.pre, upd.batch, k)}
      /\ Len(upd.changeList) = Cardinality(Range(upd.changeList))
      /\ \A k \in RecognizedKeys :
           ~Accepted(upd.pre, upd.batch, k)
             => Field(properties, k) = Field(upd.pre, k)

\* A batch with a rejected PlaybackStatus and an accepted Shuffle was applied.
C3_Witness ==
    /\ upd.n = 1
    /\ DOMAIN upd.batch = {"PlaybackStatus", "Shuffle"}
    /\ upd.batch["PlaybackStatus"] = S("Bogus")
    /\ upd.changeList = <<"Shuffle">>

\* C4: an unrecognized PlaybackStatus string leaves the cached status alone and
\* is not reported; an unrecognized LoopStatus string is stored as None and is
\* reported exactly when the cached LoopStatus was not None before.
C4_InvalidEnums ==
    upd.n > 0 =>
      /\ ( /\ "PlaybackStatus" \in DOMAIN upd.batch
           /\ upd.batch["PlaybackStatus"].t = "string"
           /\ upd.batch["PlaybackStatus"].s \notin {"Playing", "Paused", "Stopped"} )
         => /\ properties.PlaybackStatus = upd.pre.PlaybackStatus
            /\ "PlaybackStatus" \notin Range(upd.changeList)
      /\ ( /\ "LoopStatus" \in DOMAIN upd.batch
           /\ upd.batch["LoopStatus"].t = "string"
           /\ upd.batch["LoopStatus"].s \notin {"None", "Track", "Playlist"} )
         => /\ properties.LoopStatus = "None"
            /\ ("LoopStatus" \in Range(upd.changeList)
                  <=> upd.pre.LoopStatus # "None")

\* An unrecognized LoopStatus replaced a cached Track, next to an unrecognized
\* PlaybackStatus.
C4_Witness ==
    /\ upd.n = 1
    /\ DOMAIN upd.batch = {"PlaybackStatus", "LoopStatus"}
    /\ upd.batch["PlaybackStatus"] = S("Bogus")
    /\ upd.batch["LoopStatus"] = S("Bogus")
    /\ upd.pre.LoopStatus = "Track"
    /\ upd.pre.PlaybackStatus = "Playing"
    /\ upd.changeList = <<"LoopStatus">>

\* C5: the second application of the same batch reports no field other than
\* Metadata, reports Metadata exactly when the batch carries a Metadata entry
\* that decodes, and leaves the state as the first application left it.
C5_SecondApplication ==
    upd.n = 2 =>
      /\ Range(upd.changeList) \subseteq {"Metadata"}
      /\ "Metadata" \in Range(upd.changeList)
           <=> ( /\ "Metadata" \in DOMAIN upd.batch
                 /\ upd.batch["Metadata"].t = "map[string]dbus.Variant" )
      /\ properties = upd.first

\* The batch changed the status and the track the first time; the second
\* application reported the Metadata alone.
C5_Witness ==
    /\ upd.n = 2
    /\ DOMAIN upd.batch = {"PlaybackStatus", "Metadata"}
    /\ upd.batch["PlaybackStatus"] = S("Paused")
    /\ upd.changeList = <<"Metadata">>
    /\ properties.PlaybackStatus = "Paused"
    /\ properties.Media.Title = "Song B"

\* C17: after a batch whose Metadata entry is a bag, the cached track is the
\* decode of that bag alone, into a zero Media: a field the bag does not set
\* is zero, whatever the track cached before.
C17_TrackReplacedWholesale ==
    ( /\ upd.n > 0
      /\ "Metadata" \in DOMAIN upd.batch
      /\ upd.batch["Metadata"].t = "map[string]dbus.Variant" )
    => properties.Media = decodeMetadata(upd.batch["Metadata"], MediaZero).m

\* The value the entry of key k stores when it is accepted.
Stored(batch, k) ==
    CASE k = "Shuffle" -> B(batch[k].b)
      [] k = "PlaybackStatus" -> S(batch[k].s)
      [] k = "LoopStatus" ->
           S(IF batch[k].s \in {"None", "Track", "Playlist"}
             THEN batch[k].s ELSE "None")

\* C20: after a batch whose Metadata entry is not a bag, the cached track is
\* as it was and Metadata is not in the change-set, while each other entry of
\* the batch is applied and reported as it is without the Metadata entry.
C20_BadMetadataLeavesTrack ==
    ( /\ upd.n > 0
      /\ "Metadata" \in DOMAIN upd.batch
      /\ upd.batch["Metadata"].t # "map[string]dbus.Variant" )
    => /\ properties.Media = upd.pre.Media
       /\ "Metadata" \notin Range(upd.changeList)
       /\ \A k \in {"Shuffle", "PlaybackStatus", "LoopStatus"} :
            IF Accepted(upd.pre, upd.batch, k)
            THEN /\ k \in Range(upd.changeList)
                 /\ Field(properties, k) = Stored(upd.batch, k)
            ELSE /\ k \notin Range(upd.changeList)
                 /\ Field(properties, k) = Field(upd.pre, k)

\* A batch with a Metadata that is not a bag and a new status was applied to
\* a player with a cached track: the status changed, the track stayed.
C20_Witness ==
    /\ upd.n = 1
    /\ DOMAIN upd.batch = {"Metadata", "PlaybackStatus"}
    /\ upd.batch["Metadata"] = S("not a bag")
    /\ upd.batch["PlaybackStatus"] = S("Playing")
    /\ upd.pre.PlaybackStatus = "Paused"
    /\ upd.pre.Media.Title = "Song A"
    /\ properties.Media.Title = "Song A" /\ properties.Media.Artist = "A, B"
    /\ properties.PlaybackStatus = "Playing"
    /\ upd.changeList = <<"PlaybackStatus">>

-----------------------------------------------------------------------------
(* Claims about the listener and the cached state, under Spec.             *)

\* msg is a NameOwnerChanged naming the bus name, whose old-owner argument
\* (the second) is a non-empty string.
IsOwnerLost(msg, name) ==
    /\ msg.Name = "org.freedesktop.DBus.NameOwnerChanged"
    /\ Len(msg.Body) >= 2
    /\ msg.Body[1] = S(name)
    /\ msg.Body[2].t = "string" /\ msg.Body[2] # S("")

\* msg is a NameOwnerChanged naming the bus name, whose new-owner argument
\* (the third) is a non-empty string.
IsOwnerGained(msg, name) ==
    /\ msg.Name = "org.freedesktop.DBus.NameOwnerChanged"
    /\ Len(msg.Body) >= 3
    /\ msg.Body[1] = S(name)
    /\ msg.Body[3].t = "string" /\ msg.Body[3] # S("")

AfterCallback == {"RemoveMatchOwner", "RemoveMatchProps", "CloseCh", "Done", "Crashed"}

C1_State ==
    /\ Len(cb.disconnects) <= 1
    /\ IsOwnerLost(lastSig, player.Name) =>
         /\ pc.at # "Active" /\ pc.why = "break"
         /\ pc.at \in AfterCallback => cb.disconnects = <<player.Name>>

C2_TeardownCompletes ==
    (pc.at \in {"Done", "Crashed"} /\ pc.why \in {"break", "closed"}) =>
      /\ pc.at = "Done"
      /\ ~bus.matchProps /\ ~bus.matchOwner /\ ~bus.registered
      /\ bus.closed
      /\ cb.disconnects = <<player.Name>>

\* C6: each cached scalar field is the last valid value delivered for it (the
\* initial value when none was): PlaybackStatus never an unrecognized string,
\* LoopStatus the last string coerced, Shuffle the last boolean.
C6_MostRecentValid ==
    properties # NilProperties =>
      /\ properties.PlaybackStatus = seen.PlaybackStatus
      /\ properties.PlaybackStatus \in {"", "Playing", "Paused", "Stopped"}
      /\ properties.LoopStatus = seen.LoopStatus
      /\ properties.LoopStatus \in {"", "None", "Track", "Playlist"}
      /\ properties.Shuffle = seen.Shuffle

\* An unrecognized LoopStatus was coerced and reported, then an unrecognized
\* PlaybackStatus was delivered and the status fetched at construction kept.
C6_Witness ==
    /\ pc.at = "Active"
    /\ lastSig.Name = "org.freedesktop.DBus.Properties.PropertiesChanged"
    /\ Len(lastSig.Body) = 3
    /\ lastSig.Body[2] = M("PlaybackStatus" :> S("Bogus"))
    /\ properties.PlaybackStatus = "Paused"
    /\ properties.LoopStatus = "None"
    /\ cb.changes = <<[name |-> PlayerName, changed |-> <<"LoopStatus">>]>>

\* msg is a change notification the listener applies: a PropertiesChanged of
\* the player interface, sent by the owner, with a changed-properties argument.
IsChangeNotification(msg) ==
    /\ msg.Name = "org.freedesktop.DBus.Properties.PropertiesChanged"
    /\ msg.Sender = player.ownerID
    /\ Len(msg.Body) >= 2
    /\ msg.Body[1] = S("org.mpris.MediaPlayer2.Player")

\* The batches of msgs applied one after the other to the state p: the state
\* reached, and the non-empty change-sets in order.
RECURSIVE Replay(_, _)
Replay(p, msgs) ==
    IF msgs = <<>> THEN [properties |-> p, sets |-> <<>>]
    ELSE LET batch == VarMapOf(Head(msgs))
             r     == UpdateProperties(p, batch, SomeOrder(DOMAIN batch))
             rest  == Replay(r.properties, Tail(msgs))
         IN  [properties |-> rest.properties,
              sets |-> (IF r.changeList # <<>> THEN <<Range(r.changeList)>>
                        ELSE <<>>) \o rest.sets]

\* C15: the cached state is the state NewPlayer left with the batches of the
\* change notifications received applied one after the other in the order of
\* receipt, and the property-change callbacks were invoked once for each
\* non-empty change-set, in that order.
C15_AppliedInOrder ==
    pc.at # "Unregistered" =>
      LET r == Replay(seen.base, SelectSeq(seen.sigs, IsChangeNotification))
      IN  /\ properties = r.properties
          /\ Len(cb.changes) = Len(r.sets)
          /\ \A i \in DOMAIN cb.changes :
               /\ cb.changes[i].name = player.Name
               /\ Range(cb.changes[i].changed) = r.sets[i]
               /\ Len(cb.changes[i].changed) = Cardinality(r.sets[i])

\* Two notifications were applied and reported in the order of receipt: the
\* status became Playing, then Paused.
C15_Witness ==
    /\ Len(seen.sigs) = 2
    /\ seen.sigs[1].Body = <<S("org.mpris.MediaPlayer2.Player"),
                             M("PlaybackStatus" :> S("Playing")), AS(<<>>)>>
    /\ seen.sigs[2].Body = <<S("org.mpris.MediaPlayer2.Player"),
                             M("PlaybackStatus" :> S("Paused")), AS(<<>>)>>
    /\ seen.base.PlaybackStatus = "Paused"
    /\ properties.PlaybackStatus = "Paused"
    /\ Len(cb.changes) = 2 /\ pc.at = "Active"

\* msg is a change or presence-change notification whose body is malformed:
\* not three arguments, or an argument of the wrong type.
IsMalformed(msg) ==
    \/ /\ msg.Name = "org.freedesktop.DBus.Properties.PropertiesChanged"
       /\ \/ Len(msg.Body) # 3
          \/ msg.Body[1].t # "string"
          \/ msg.Body[2].t # "map[string]dbus.Variant"
    \/ /\ msg.Name = "org.freedesktop.DBus.NameOwnerChanged"
       /\ \/ Len(msg.Body) # 3
          \/ \E i \in 1..3 : msg.Body[i].t # "string"

\* C16: when the active listener takes a notification with a malformed body
\* from its channel, the cached state stays, no callback is invoked and the
\* listener stays Active.
C16_MalformedSkipped ==
    [][ (nsteps' = nsteps + 1 /\ IsMalformed(lastSig'))
        => /\ properties' = properties
           /\ cb' = cb
           /\ pc'.at = "Active" ]_vars

\* C12: when NewPlayer returns the invalid-destination error, nothing was
\* asked of the bus (no GetAll, no AddMatchSignal, no channel registered), no
\* listener was started, no callback was invoked and the player holds no
\* state; whenever any of these happened, the name matched the pattern.
C12_InvalidDestination ==
    /\ player.err = "ErrInvalidDestination" =>
         /\ ~bus.fetched /\ bus.subscribes = 0 /\ ~bus.registered
         /\ ~bus.matchProps /\ ~bus.matchOwner
         /\ pc.at = "Unregistered"
         /\ cb.disconnects = <<>> /\ cb.changes = <<>>
         /\ properties = [nil |-> TRUE]
         /\ player.Name = "" /\ ~player.isConnected
    /\ ( \/ bus.fetched \/ bus.subscribes > 0 \/ bus.registered
         \/ pc.at # "Unregistered" \/ cb.disconnects # <<>>
         \/ cb.changes # <<>> )
         => DestinationMatch(Chars(player.Name))

\* NewPlayer was called with a name that does not match and returned the error.
C12_Witness ==
    /\ player.err = "ErrInvalidDestination"
    /\ pc.at = "Unregistered" /\ ~bus.fetched

-----------------------------------------------------------------------------
(* Claims about the control operations, under SpecCtl.                     *)

\* The remote method each control operation stands for.
MethodOf(op) ==
    CASE op = "Raise" -> "org.mpris.MediaPlayer2.Raise"
      [] op = "Quit" -> "org.mpris.MediaPlayer2.Quit"
      [] OTHER -> "org.mpris.MediaPlayer2.Player." \o op

ControlOps ==
    {"Raise", "Quit", "Play", "Pause", "PlayPause", "Stop", "Next", "Previous",
     "Seek"}

\* C7 (as stated): with a can-pause answer of false, Pause returns the
\* unsupported error and calls no method, whatever the cached status.
C7_PauseUnsupportedAlways ==
    (remote.op = "Pause" /\ remote.caps["CanPause"] = ReplyFalse) =>
      /\ remote.ret.err = "unsupported"
      /\ remote.calls = <<>>

\* C7 (amended): with a can-pause answer of false, Pause calls no method; it
\* returns the unsupported error when the cached status is not Paused, and
\* when it is Paused it returns success without reading the capability.
C7_PauseUnsupported ==
    (remote.op = "Pause" /\ remote.caps["CanPause"] = ReplyFalse) =>
      /\ remote.calls = <<>>
      /\ remote.cached # "Paused" =>
           remote.ret = Unsupported("Pause") /\ remote.queries = <<"CanPause">>
      /\ remote.cached = "Paused" =>
           remote.ret = NoError /\ remote.queries = <<>>

\* Pause was refused while the cached status was Playing.
C7_Witness ==
    /\ remote.op = "Pause" /\ remote.caps["CanPause"] = ReplyFalse
    /\ remote.cached = "Playing"
    /\ remote.ret.err = "unsupported" /\ remote.calls = <<>>

\* C8: a control operation calls its method only after every capability it
\* read in that call answered the boolean true; an answer that is an error, not
\* a boolean or false gives the unsupported error and no method call; a failed
\* method call gives the transport error.
C8_CapabilityGate ==
    remote.op \in ControlOps =>
      /\ remote.calls # <<>> =>
           /\ remote.queries # <<>>
           /\ \A i \in DOMAIN remote.queries :
                remote.caps[remote.queries[i]] = ReplyTrue
           /\ Len(remote.calls) = 1
           /\ remote.calls[1].method = MethodOf(remote.op)
           /\ remote.ret = IF remote.callErr
                           THEN [err |-> "transport", op |-> remote.op,
                                 wraps |-> "call.Err"]
                           ELSE [err |-> "nil"]
      /\ (\E i \in DOMAIN remote.queries :
            remote.caps[remote.queries[i]] # ReplyTrue) =>
           /\ remote.ret.err = "unsupported"
           /\ remote.calls = <<>>

\* Seek was allowed, called its method with the offset in microseconds, and
\* the call failed.
C8_Witness ==
    /\ remote.op = "Seek" /\ remote.caps["CanSeek"] = ReplyTrue
    /\ remote.calls = <<[method |-> "org.mpris.MediaPlayer2.Player.Seek",
                         args |-> <<-2000000>>]>>
    /\ remote.callErr /\ remote.ret.err = "transport"

\* C9: Play, Pause and Stop called while the cached status is already Playing,
\* Paused and Stopped return success, read no capability, call no method (the
\* count of remote calls stays) and leave the cached state as it was.
C9_IdempotentNoOp ==
    [][ ( /\ nsteps' = nsteps + 1
          /\ <<remote'.op, properties.PlaybackStatus>>
               \in {<<"Play", "Playing">>, <<"Pause", "Paused">>,
                    <<"Stop", "Stopped">>} )
        => /\ remote'.ret = [err |-> "nil"]
           /\ remote'.queries = <<>> /\ remote'.calls = <<>>
           /\ remote'.total = remote.total
           /\ properties' = properties ]_vars

\* Play was called three times on a playing endpoint: no remote call at all,
\* though the endpoint would have failed the capability check.
C9_Witness ==
    /\ nsteps = 3 /\ remote.total = 0
    /\ remote.op = "Play" /\ remote.cached = "Playing"
    /\ remote.caps["CanPlay"] = ReplyFalse
    /\ remote.ret = NoError

\* C10: PlayPause calls the PlayPause method exactly when both can-pause and
\* can-play answer true; otherwise it returns the unsupported error and calls
\* no method.
C10_PlayPauseNeedsBoth ==
    remote.op = "PlayPause" =>
      IF remote.caps["CanPause"] = ReplyTrue /\ remote.caps["CanPlay"] = ReplyTrue
      THEN /\ Len(remote.calls) = 1
           /\ remote.calls[1].method = "org.mpris.MediaPlayer2.Player.PlayPause"
      ELSE /\ remote.calls = <<>>
           /\ remote.ret.err = "unsupported"

\* PlayPause was refused on an endpoint that can pause but cannot play.
C10_Witness ==
    /\ remote.op = "PlayPause"
    /\ remote.caps["CanPause"] = ReplyTrue
    /\ remote.caps["CanPlay"] = ReplyFalse
    /\ remote.queries = <<"CanPause", "CanPlay">>
    /\ remote.calls = <<>> /\ remote.ret.err = "unsupported"

\* C11: SetPosition and OpenUri return the not-implemented error for every
\* argument, cached status and endpoint answer; they read no capability and
\* call no method (the count of remote calls stays), and the cached state is
\* as it was.
C11_NotImplemented ==
    /\ [](remote.op \in {"SetPosition", "OpenUri"} =>
            /\ remote.ret = [err |-> "not implemented",
                             wraps |-> "ErrNotImplemented"]
            /\ remote.queries = <<>> /\ remote.calls = <<>>)
    /\ [][ (nsteps' = nsteps + 1 /\ remote'.op \in {"SetPosition", "OpenUri"})
           => /\ remote'.total = remote.total
              /\ properties' = properties ]_vars

\* SetPosition was refused on a playing endpoint that can seek and would have
\* answered the call, after an operation that did reach the endpoint.
C11_Witness ==
    /\ remote.op = "SetPosition" /\ remote.args = <<"/track/1", 5000>>
    /\ remote.caps["CanSeek"] = ReplyTrue /\ ~remote.callErr
    /\ remote.cached = "Playing"
    /\ remote.total = 2
    /\ remote.ret.err = "not implemented"

\* C31: for every control operation, when a capability it read was not
\* answered with true, errors.Is finds ErrUnsupported in the error returned;
\* when the method call failed, it finds neither ErrUnsupported nor
\* ErrNotImplemented in it.
C31_UnsupportedIdentifiable ==
    remote.op \in ControlOps =>
      /\ (\E c \in Range(remote.queries) : remote.caps[c] # ReplyTrue)
            => remote.ret.wraps = "ErrUnsupported"
      /\ (remote.calls # <<>> /\ remote.callErr)
            => /\ remote.ret.err # "nil"
               /\ remote.ret.wraps \notin {"ErrUnsupported", "ErrNotImplemented"}

-----------------------------------------------------------------------------
(* Claims about the lock of properties, under SpecLock.                    *)

\* What a read of the state s returns to the reader op.
Observed(op, s) == IF op = "GetMetadata" THEN s.Media ELSE s.PlaybackStatus

\* C13: the value a caller's read returned is the value of a state before or
\* after a whole batch: of the state when the read began (before the batch
\* then in progress), or of the state some UpdateProperties left when it
\* returned during the read or first after it.
C13_ReadsSeeWholeBatches ==
    (thr.r.at = "done" /\ ~thr.r.open) =>
       \E s \in thr.r.stable : thr.r.got = Observed(thr.r.op, s)

\* C14: a goroutine inside the loop of UpdateProperties holds the mutex, so at
\* most one is inside; and each call that returned left the state, and
\* returned the changeList, that UpdateProperties gives when applied alone to
\* the state it found when it took the mutex.
C14_BatchUnderLock ==
    /\ \A w \in Writers :
         thr.w[w].at \in {"loop", "decode"} => thr.lock = w
    /\ Cardinality({w \in Writers : thr.w[w].at \in {"loop", "decode"}}) <= 1
    /\ \A w \in Writers :
         (thr.w[w].at = "idle" /\ thr.w[w].n > 0) =>
            \E ord \in Orders(DOMAIN thr.w[w].batch) :
               LET r == UpdateProperties(thr.w[w].pre, thr.w[w].batch, ord)
               IN  /\ thr.w[w].post = r.properties
                   /\ thr.w[w].changeList = r.changeList

\* Both goroutines applied a batch with two entries, the listener to the state
\* the caller left.
C14_Witness ==
    /\ thr.w["caller"].n = 1 /\ thr.w["listener"].n = 1
    /\ thr.w["caller"].changeList = <<"Metadata", "PlaybackStatus">>
    /\ thr.w["listener"].changeList = <<"LoopStatus", "Shuffle">>
    /\ thr.w["listener"].pre = thr.w["caller"].post
    /\ thr.lock = ""

-----------------------------------------------------------------------------
(* Claims about the signals the listener filters, under Spec.              *)

\* C24: a change notification whose sender is not the endpoint's owner, taken
\* by the active listener, leaves the cached state as it was, invokes no
\* callback and leaves the listener where it was.
C24_OtherSenderIgnored ==
    [][ ( /\ nsteps' = nsteps + 1
          /\ lastSig'.Name = "org.freedesktop.DBus.Properties.PropertiesChanged"
          /\ lastSig'.Sender # player.ownerID )
        => /\ properties' = properties
           /\ cb' = cb
           /\ pc' = pc ]_vars

\* A notification of another connection, whose batch would have changed the
\* status, was the last one taken: the status stayed, nothing was reported.
C24_Witness ==
    /\ pc.at = "Active"
    /\ lastSig.Name = "org.freedesktop.DBus.Properties.PropertiesChanged"
    /\ lastSig.Sender = OtherOwner /\ player.ownerID = OwnerE
    /\ Len(lastSig.Body) = 3
    /\ lastSig.Body[2] = M("PlaybackStatus" :> S("Stopped"))
    /\ properties.PlaybackStatus = "Playing"
    /\ cb.changes = <<>>

\* C25: the listener invokes onPropertyChange for a signal exactly when the
\* signal is a change notification of the player interface (from the owner)
\* whose batch gives a non-empty change-set, once, with the endpoint's name and
\* exactly the keys of the change-set; for any other signal the callback is
\* not invoked and the cached state stays.
C25_CallbackIffChangeSet ==
    [][ nsteps' = nsteps + 1 =>
          LET msg == lastSig'
              set == {k \in RecognizedKeys :
                        Accepted(properties, VarMapOf(msg), k)}
          IN  IF IsChangeNotification(msg) /\ set # {}
              THEN /\ Len(cb'.changes) = Len(cb.changes) + 1
                   /\ SubSeq(cb'.changes, 1, Len(cb.changes)) = cb.changes
                   /\ LET last == cb'.changes[Len(cb'.changes)]
                      IN  /\ last.name = player.Name
                          /\ Range(last.changed) = set
                          /\ Len(last.changed) = Cardinality(set)
              ELSE /\ cb'.changes = cb.changes
                   /\ properties' = properties ]_vars

\* A Shuffle change was reported, then a notification of the root interface
\* was taken and neither reported nor applied.
C25_Witness ==
    /\ pc.at = "Active" /\ Len(seen.sigs) = 2
    /\ seen.sigs[1].Body = <<S("org.mpris.MediaPlayer2.Player"),
                             M("Shuffle" :> B(TRUE)), AS(<<>>)>>
    /\ seen.sigs[2].Sender = player.ownerID
    /\ seen.sigs[2].Body = <<S("org.mpris.MediaPlayer2"),
                             M("PlaybackStatus" :> S("Stopped")), AS(<<>>)>>
    /\ cb.changes = <<[name |-> PlayerName, changed |-> <<"Shuffle">>]>>
    /\ properties.PlaybackStatus # "Stopped"

\* C27: when a subscription request of Register failed, NewPlayer returned the
\* handle without error and the listener was started, in its loop; the
\* disconnect callback is not invoked before teardown reaches it, and from
\* then on it was invoked exactly once, with the endpoint's name.
C27_State ==
    bus.failed > 0 =>
      /\ player.err = "none" /\ player.isConnected
      /\ pc.at # "Unregistered"
      /\ pc.at \in {"Active", "RemoveSignal", "OnDisconnect"}
            => cb.disconnects = <<>>
      /\ pc.at \in {"RemoveMatchOwner", "RemoveMatchProps", "CloseCh", "Done",
                    "Crashed"}
            => cb.disconnects = <<player.Name>>

C27_SubscriptionFailureNonFatal ==
    /\ []C27_State
    /\ [][(pc.at = "Unregistered" /\ bus'.failed > 0) => pc'.at = "Active"]_vars

\* Both subscription requests failed, the owner left later, and teardown
\* finished with one disconnect callback.
C27_Witness ==
    /\ bus.failed = 2
    /\ pc.at = "Done" /\ pc.why = "break"
    /\ cb.disconnects = <<PlayerName>>

\* C28: teardown does not close the listener's channel when the channel is
\* closed already.
C28_ClosedAtMostOnce ==
    [][(pc.at = "CloseCh" /\ pc'.at # "CloseCh") => ~bus.closed]_vars

\* C29: a presence-change notification whose subject is another bus name, taken
\* by the active listener, does not end the loop, leaves the cached state as
\* it was and invokes no callback, whatever its other arguments.
C29_OtherNameIgnored ==
    [][ ( /\ nsteps' = nsteps + 1
          /\ lastSig'.Name = "org.freedesktop.DBus.NameOwnerChanged"
          /\ Len(lastSig'.Body) >= 1
          /\ lastSig'.Body[1].t = "string"
          /\ lastSig'.Body[1].s # player.Name )
        => /\ pc' = pc
           /\ properties' = properties
           /\ cb' = cb ]_vars

\* The owner of another bus name left, and the listener is still in its loop.
C29_Witness ==
    /\ pc.at = "Active"
    /\ lastSig.Name = "org.freedesktop.DBus.NameOwnerChanged"
    /\ lastSig.Body = <<S(OtherName), S(OwnerE), S("")>>
    /\ player.Name = PlayerName
    /\ cb.disconnects = <<>>

-----------------------------------------------------------------------------
(* SpecFn: one call of a function of the package on an input: decodeMetadata *)
(* on a value and a Media, twice from the same Media, each time in some      *)
(* iteration order of the map; HasValidDestinationName on a name.            *)

\* Largest number of entries of a decoded bag.
MaxDecKeys == 2

DecKeys ==
    {"xesam:title", "xesam:artist", "xesam:contentCreated", "xesam:genre",
     "mpris:length", "mpris:trackid", "custom:key"}

\* The values a player may send under each key: of the type the decoder
\* takes, and of another type.
DecValues(k) ==
    CASE k = "xesam:title"   -> {S("Song C"), X(1)}
      [] k = "xesam:artist"  -> {S("Solo"), AS(<<"A", "B">>), X(7)}
      [] k = "xesam:contentCreated" ->
            {S("2024-05-01T10:00:00Z"), S("1999-12-31T23:59:59+01:00"),
             S("0100-01-01T00:00:00Z"), S("yesterday"), X(2024)}
      [] k = "xesam:genre"   -> {AS(<<"Rock", "Pop">>), S("Rock")}
      [] k = "mpris:length"  -> {X(5000), S("long")}
      [] k = "mpris:trackid" -> {S("/track/1"), X(1)}
      [] OTHER -> {S("x")}

RECURSIVE DecBagsOver(_)
DecBagsOver(ks) ==
    IF ks = {} THEN {<<>>}
    ELSE LET k == CHOOSE x \in ks : TRUE
         IN  {(k :> v) @@ b : v \in DecValues(k), b \in DecBagsOver(ks \ {k})}

\* The values handed to decodeMetadata: bags, and values that are no bag.
DecInputs ==
    {M(b) : b \in UNION {DecBagsOver(ks) :
               ks \in {x \in SUBSET DecKeys : Cardinality(x) <= MaxDecKeys}}}
    \cup {S("not a bag"), X(1)}

\* The Media the decoder writes into: the zero value, and an earlier track.
DecStarts == {MediaZero, decodeMetadata(M(BagA), MediaZero).m}

FnNames ==
    {"", PlayerName, OtherName, "com.example.spotify",
     "org.mpris.MediaPlayer2.spotify",
     "org.mpris.MediaPlayer2.vlc.instance1234", "org.mpris.MediaPlayer2.",
     "org.mpris.MediaPlayer2.1vlc", "org.mpris.MediaPlayer2.vlc player",
     "xorg.mpris.MediaPlayer2.vlc", "orgXmpris.MediaPlayer2.vlc",
     "org.mpris/MediaPlayer2.vlc"}

InitFn ==
    /\ fn \in {[op |-> "decodeMetadata", in |-> v, m |-> m, outs |-> <<>>] :
                 v \in DecInputs, m \in DecStarts}
              \cup
              {[op |-> "HasValidDestinationName", in |-> n, m |-> MediaZero,
                outs |-> <<>>] : n \in FnNames}
    /\ player = playerZero /\ properties = NilProperties
    /\ upd = updIdle /\ pc = pcIdle /\ bus = busIdle /\ cb = cbIdle
    /\ lastSig = sigIdle /\ seen = seenIdle /\ remote = remoteIdle
    /\ nsteps = 0 /\ thr = thrIdle /\ reg = regIdle

\* err := decodeMetadata(fn.in, &m) on a copy m of fn.m.
Decode ==
    /\ fn.op = "decodeMetadata" /\ Len(fn.outs) < 2
    /\ \E ord \in Orders(IF IsBag(fn.in) THEN DOMAIN fn.in.m ELSE {}) :
         fn' = [fn EXCEPT !.outs = Append(@, decodeMetadataOrd(fn.in, fn.m, ord))]
    /\ UNCHANGED <<player, properties, upd, pc, bus, cb, lastSig, seen, remote,
                   nsteps, thr, reg>>

\* HasValidDestinationName(fn.in)
MatchName ==
    /\ fn.op = "HasValidDestinationName" /\ fn.outs = <<>>
    /\ fn' = [fn EXCEPT !.outs = <<HasValidDestinationName(fn.in)>>]
    /\ UNCHANGED <<player, properties, upd, pc, bus, cb, lastSig, seen, remote,
                   nsteps, thr, reg>>

NextFn == Decode \/ MatchName

SpecFn == InitFn /\ [][NextFn]_vars

-----------------------------------------------------------------------------
(* Claims about decodeMetadata and HasValidDestinationName, under SpecFn.    *)

\* The field of Media each attribute taken as a string is stored in.
StringField ==
    ("mpris:trackid" :> "ID") @@ ("mpris:artUrl" :> "ArtURL")
    @@ ("xesam:album" :> "Album") @@ ("xesam:albumArtist" :> "AlbumArtist")
    @@ ("xesam:title" :> "Title") @@ ("xesam:url" :> "URL")

\* What a decode of bag into m0 is to leave in the fields other than Year:
\* the value of each well-typed attribute, and m0's value otherwise.
ExpectedField(bag, m0, f) ==
    LET has(k) == k \in DOMAIN bag IN
    CASE f = "Artist" ->
            IF has("xesam:artist") /\ bag["xesam:artist"].t = "string"
            THEN bag["xesam:artist"].s
            ELSE IF has("xesam:artist") /\ bag["xesam:artist"].t = "[]string"
            THEN Join(bag["xesam:artist"].l, ", ")
            ELSE m0.Artist
      [] f = "Genre" ->
            IF has("xesam:genre") /\ bag["xesam:genre"].t = "[]string"
            THEN Join(bag["xesam:genre"].l, ", ")
            ELSE m0.Genre
      [] f = "Length" ->
            IF has("mpris:length") /\ bag["mpris:length"].t = "int64"
            THEN bag["mpris:length"].n * 1000
            ELSE m0.Length
      [] OTHER ->
            IF \E k \in DOMAIN StringField \cap DOMAIN bag :
                  StringField[k] = f /\ bag[k].t = "string"
            THEN LET k == CHOOSE k \in DOMAIN StringField \cap DOMAIN bag :
                             StringField[k] = f
                 IN  bag[k].s
            ELSE m0[f]

\* C21: a decode of a bag returns no error whatever the types of its values
\* and whatever unknown keys it holds, every well-typed recognized attribute is
\* decoded and a mistyped one leaves its field as it was, whatever the
\* iteration order; two decodes of the same bag from the same Media give the
\* same result; a value that is no bag gives an error.
C21_DecodeTotalDeterministic ==
    fn.op = "decodeMetadata" =>
      /\ \A i \in DOMAIN fn.outs :
           IF fn.in.t = "map[string]dbus.Variant"
           THEN /\ ~fn.outs[i].err
                /\ \A f \in DOMAIN MediaZero \ {"Year"} :
                     fn.outs[i].m[f] = ExpectedField(fn.in.m, fn.m, f)
           ELSE fn.outs[i].err
      /\ Len(fn.outs) = 2 => fn.outs[1] = fn.outs[2]

\* A bag with a mistyped artist, an unknown key and a well-typed title was
\* decoded twice into the earlier track: no error, the title decoded.
C21_Witness ==
    /\ fn.op = "decodeMetadata" /\ Len(fn.outs) = 2
    /\ fn.in = M(("xesam:artist" :> X(7)) @@ ("xesam:title" :> S("Song C")))
    /\ fn.m # MediaZero
    /\ ~fn.outs[2].err /\ fn.outs[2].m.Title = "Song C"
    /\ fn.outs[2].m.Artist = fn.m.Artist

\* The literal prefix of the endpoint names, by its characters.
LiteralPrefix ==
    <<"o", "r", "g", ".", "m", "p", "r", "i", "s", ".",
      "M", "e", "d", "i", "a", "P", "l", "a", "y", "e", "r", "2", ".">>

StartsWithLiteralPrefix(cs) ==
    /\ Len(cs) >= Len(LiteralPrefix)
    /\ SubSeq(cs, 1, Len(LiteralPrefix)) = LiteralPrefix

\* C22: HasValidDestinationName is true only for names that start with the
\* literal prefix "org.mpris.MediaPlayer2." and go on with a non-empty suffix;
\* it accepts the two names of the examples and rejects the empty suffix and
\* every name that does not start with the literal prefix.
C22_LiteralPrefixOnly ==
    (fn.op = "HasValidDestinationName" /\ fn.outs # <<>>) =>
      LET cs == Chars(fn.in)
          ok == fn.outs[1]
      IN  /\ ok => (StartsWithLiteralPrefix(cs) /\ Len(cs) > Len(LiteralPrefix))
          /\ fn.in \in {"org.mpris.MediaPlayer2.spotify",
                        "org.mpris.MediaPlayer2.vlc.instance1234"} => ok
          /\ fn.in \in {"org.mpris.MediaPlayer2.", "com.example.spotify"} => ~ok
          /\ ~StartsWithLiteralPrefix(cs) => ~ok

\* C23: a creation timestamp that is a string and parses, with calendar year
\* y, leaves the year y truncated to 8 bits, a value of -128..127 congruent to
\* y modulo 256 (2024 gives -24); an absent, mistyped or unparsable timestamp
\* leaves the year as it was.
C23_YearTruncated ==
    (fn.op = "decodeMetadata" /\ fn.in.t = "map[string]dbus.Variant") =>
      \A i \in DOMAIN fn.outs :
        LET bag == fn.in.m
            year == fn.outs[i].m.Year
            parses == /\ "xesam:contentCreated" \in DOMAIN bag
                      /\ bag["xesam:contentCreated"].t = "string"
                      /\ ~ParseRFC3339(bag["xesam:contentCreated"].s).err
        IN  IF parses
            THEN LET y == ParseRFC3339(bag["xesam:contentCreated"].s).year
                 IN  /\ year \in -128..127
                     /\ (year - y) % 256 = 0
                     /\ y = 2024 => year = -24
            ELSE year = fn.m.Year

\* A timestamp of the year 1999 was decoded into a Media of another year.
C23_Witness ==
    /\ fn.op = "decodeMetadata" /\ fn.outs # <<>>
    /\ fn.in = M("xesam:contentCreated" :> S("1999-12-31T23:59:59+01:00"))
    /\ fn.m.Year = -24
    /\ fn.outs[1].m.Year = -49

-----------------------------------------------------------------------------
(* Claims about the registry, under SpecReg.                               *)

\* The handles in main's players slice, in order.
Registry == SliceElems(reg.heap, reg.players)

\* Handle h was appended: the discovery goroutine is not still about to.
Appended(h) == reg.disc.h # h

\* No goroutine is at work: nothing waits on a channel, the discovery
\* goroutine is not appending, no listener is tearing down.
Quiescent ==
    /\ ~reg.crashed
    /\ reg.disc.q = <<>> /\ reg.disc.at \in {"recv", "ended"}
    /\ \A h \in DOMAIN reg.handles :
         /\ reg.handles[h].q = <<>>
         /\ reg.handles[h].at \in {"None", "Active", "Done"}
         /\ reg.handles[h].at = "Active" => ~reg.handles[h].closed

\* Handle h stands for a player that is on the bus: its name is still owned
\* by the owner it was made for, and its listener waits with nothing pending.
Live(h) ==
    /\ reg.handles[h].at = "Active"
    /\ reg.handles[h].q = <<>>
    /\ reg.owner[reg.handles[h].Name] = reg.handles[h].ownerID

\* C18: whatever the interleaving of the discovery goroutine's append with the
\* onDisconnect callbacks of the listeners, no handle is lost (a handle that
\* was appended and whose player is on the bus is in the slice) and none is
\* duplicated (no handle is in the slice twice).
C18_NoHandleLostOrDuplicated ==
    /\ \A h \in DOMAIN reg.handles :
         (Appended(h) /\ Live(h)) => h \in Range(Registry)
    /\ \A i, j \in DOMAIN Registry : Registry[i] = Registry[j] => i = j

\* C19: when the bus name of a handle has no owner and the disconnect callback
\* of the handle has returned, the registry holds no handle with that name;
\* and when every goroutine has come to rest, a handle whose bus name has no
\* owner has its listener torn down.
C19_DestroyedWhenOwnerGone ==
    \A h \in DOMAIN reg.handles :
      reg.owner[reg.handles[h].Name] = "" =>
        /\ reg.handles[h].at \in {"Finish", "Done"} =>
             \A x \in Range(Registry) :
                NameOf(reg.handles, x) # reg.handles[h].Name
        /\ (Quiescent /\ reg.handles[h].err = "none") =>
             reg.handles[h].at = "Done"

\* The positions in the registry of the handles made for the bus name n.
HandlesFor(n) == {i \in DOMAIN Registry : NameOf(reg.handles, Registry[i]) = n}

\* C26: as long as the connection is open and every NewPlayer succeeded, no
\* disconnect callback ends in a panic; and once every goroutine has come to
\* rest, a bus name that left an owner and has an owner now has exactly one
\* handle in the registry, the one made for the owner it has now, with its
\* listener in its loop.
C26_OneFreshHandle ==
    (~reg.closed /\ \A h \in DOMAIN reg.handles : reg.handles[h].err = "none")
      => /\ ~reg.crashed
         /\ Quiescent =>
              \A n \in RegNames :
                ( /\ reg.owner[n] # ""
                  /\ \E h \in DOMAIN reg.handles :
                       reg.handles[h].Name = n /\ reg.handles[h].at = "Done" )
                => /\ Cardinality(HandlesFor(n)) = 1
                   /\ \A i \in HandlesFor(n) :
                        /\ reg.handles[Registry[i]].ownerID = reg.owner[n]
                        /\ reg.handles[Registry[i]].at = "Active"

\* C30: every handle in the registry was returned by a NewPlayer call that
\* returned no error.
C30_OnlyConstructedHandles ==
    \A x \in Range(Registry) : reg.handles[x].err = "none"

====
